---- MODULE Spec2Model ----
(***************************************************************************)
(* The BLN frame codec of lazynet: the checksum, the frame decoder and the  *)
(* frame encoder of the two codec implementations the repository holds     *)
(* (protocol::bln::BlnProtocol and bln::protocol::types::BlnCommandDecode / *)
(* BlnCommandEncoder), and the Command <-> BlnProtocolType conversions.     *)
(*                                                                         *)
(* Values.  A byte is a number 0..255, a buffer a sequence of bytes.        *)
(* Option<T> is a sequence of length 0 (None) or 1 (Some).  Result<T, E> is *)
(* a record [ok, val, err].  An f32 is its 32-bit pattern (a number         *)
(* 0..2^32-1), which is what put_f32_le / get_f32_le move.                  *)
(***************************************************************************)
EXTENDS Integers, Sequences, FiniteSets, TLC

VARIABLES
    codec,      \* which implementation is under test: "protocol" or "bln"
    stream,     \* what the device sends in this run (Idle: nothing)
    wire,       \* bytes the transport has not delivered yet
    chunk,      \* bytes one read delivers (0: everything available)
    buf,        \* the reader's receive buffer (BytesMut)
    pre,        \* the buffer as handed to the last parse_protocol_frame call
    commands,   \* Option<Vec<Command>> of the last parse call, as a sequence
    event,      \* Option<BlnProtocolType> handed to the conversion
    command,    \* Option<Result<Command>>: the command handed to create_frame
    frame,      \* Option<Result<Bytes>>: what create_frame returned
    op,         \* the conversion called on its own ("none": the codec runs)
    arg,        \* the argument of that call
    result,     \* Option<value returned by that call>
    wiring,     \* who holds the outbound sender ("off": run() is not running)
    transport,  \* the TCP link: "up", "closed" (by the peer) or "failed"
    reader,     \* the reader task: "running" or "done"
    writer,     \* the writer task: "running" or "done"
    uiw,        \* the UI task: "running", "done" or "panicked"
    pending,    \* Commands of the last parse call not yet handed to try_send
    uiq,        \* the decoded-event channel (ui_sender -> ui_receiver)
    uiSenders,  \* live senders of the decoded-event channel
    cmdq,       \* the outbound channel (_command_sender -> command_receiver)
    cmdSender,  \* the outbound sender: "held" or "dropped"
    tosend,     \* Commands the holder of the outbound sender still sends
    sent,       \* history: Commands sent into the outbound channel, in order
    written,    \* history: <<index in sent, frame>> of every write_frame Ok
    wlog,       \* history: what the writer did with each Command it received
    produced,   \* history: Commands the decoder returned, in order, numbered
    delivered,  \* history: numbered Commands the UI task received, in order
    lastDraw,   \* the last terminal.draw: "none", "ok", "err", "panic"
    runpc,      \* run(): "join", "joined", "restored", "returned"
    surface,    \* the terminal: "acquired" or "released"
    dpc,        \* a decode call followed step by step: "off", "idle" (between
                \* calls), "loop" (in the loop), "panic"
    iters,      \* loop iterations the current decode call has begun
    acc,        \* history: the Commands all decode calls returned, in order
    whole       \* history: all the bytes the device sends in this run

vars == <<codec, stream, wire, chunk, buf, pre, commands, event, command, frame,
          op, arg, result,
          wiring, transport, reader, writer, uiw, pending, uiq, uiSenders, cmdq,
          cmdSender, tosend, sent, written, wlog, produced, delivered, lastDraw,
          runpc, surface, dpc, iters, acc, whole>>

\* the variables of LazyApp::run
run == <<wiring, transport, reader, writer, uiw, pending, uiq, uiSenders, cmdq,
         cmdSender, tosend, sent, written, wlog, produced, delivered, lastDraw,
         runpc, surface>>

\* the variables of a decode call followed step by step
dec == <<dpc, iters, acc, whole>>

\* the variables of a conversion called on its own
conv == <<op, arg, result>>

----------------------------------------------------------------------------
(* Bit operations on unsigned integers *)

RECURSIVE BitXor(_, _)
BitXor(a, b) ==
    IF a = 0 THEN b
    ELSE IF b = 0 THEN a
    ELSE ((a + b) % 2) + 2 * BitXor(a \div 2, b \div 2)

RECURSIVE BitAnd(_, _)
BitAnd(a, b) ==
    IF a = 0 \/ b = 0 THEN 0
    ELSE ((a % 2) * (b % 2)) + 2 * BitAnd(a \div 2, b \div 2)

\* x as u16
AsU16(x) == x % 65536

\* u16::from_le_bytes / get_u16_le
U16FromLe(b0, b1) == b0 + 256 * b1

\* u16::from_be_bytes / get_u16
U16FromBe(b0, b1) == 256 * b0 + b1

\* mutant: put_u16_le writes the high byte first
PutU16Le_HighFirst(v) == <<v \div 256, v % 256>>

\* put_u16_le
PutU16Le(v) == <<v % 256, v \div 256>>

\* put_u16
PutU16Be(v) == <<v \div 256, v % 256>>

\* buf.advance(n) / the remainder after buf.split_to(n)
Advance(b, n) == SubSeq(b, n + 1, Len(b))

----------------------------------------------------------------------------
(* Frame constants *)

FRAME_HEAD == <<85, 170>>
FRAME_HEAD_LEN == 2
FRAME_FIXED_LEN == 9
FRAME_BCC_LEN == 1
RESERVED_LEN == 4
TYPE_LEN == 1
DATA_LENGTH_MASK == 8191
FLAGS_MASK == 57344

None == <<>>
Some(x) == <<x>>

Ok(v) == [ok |-> TRUE, val |-> v, err |-> "none"]
Err(e) == [ok |-> FALSE, val |-> <<>>, err |-> e]

----------------------------------------------------------------------------
(* utils.rs *)

\* data.iter().fold(0, |bcc, &byte| bcc ^ byte) over data[lo..hi]: the bytes
\* are taken left to right and the running value bcc is carried through.  A
\* span of several bytes is folded as its first half, then its second half
\* entered with the value the first half left (this keeps the evaluation
\* shallow on long payloads; the order of the bytes is the code's).
RECURSIVE BccFold(_, _, _, _)
BccFold(data, lo, hi, bcc) ==
    IF bcc < 0 \/ lo > hi THEN bcc
    ELSE IF lo = hi THEN BitXor(bcc, data[lo])
    ELSE LET mid == (lo + hi) \div 2
         IN  BccFold(data, mid + 1, hi, BccFold(data, lo, mid, bcc))

\* mutant: the fold seeded with 0xFF instead of 0
calculate_bcc_SeedFF(data) == BccFold(data, 1, Len(data), 255)

\* mutant: the fold leaves out the first byte
calculate_bcc_SkipFirst(data) == BccFold(data, 2, Len(data), 0)

calculate_bcc(data) == BccFold(data, 1, Len(data), 0)

----------------------------------------------------------------------------
(* protocol/src/bln/protocol.rs: BlnProtocol, and the parts that             *)
(* bln/src/protocol/types.rs: BlnCommandDecode shares with it word for word  *)

\* mutant: the last sync word of the buffer is taken for the first
HeadPosition_Last(b) ==
    LET hits == {i \in 1..(Len(b) - 1) :
                    SubSeq(b, i, i + FRAME_HEAD_LEN - 1) = FRAME_HEAD}
    IN  IF hits = {} THEN None
        ELSE Some((CHOOSE i \in hits : \A j \in hits : i >= j) - 1)

\* buf.windows(FRAME_HEAD_LEN).position(|f| f == FRAME_HEAD): the 0-based index
\* of the first occurrence of the sync word, as an Option
HeadPosition(b) ==
    LET hits == {i \in 1..(Len(b) - 1) :
                    SubSeq(b, i, i + FRAME_HEAD_LEN - 1) = FRAME_HEAD}
    IN  IF hits = {} THEN None
        ELSE Some((CHOOSE i \in hits : \A j \in hits : i <= j) - 1)

\* mutant: a buffer with no sync word in it is emptied
find_frame_head_DropNoise(b) ==
    LET index == HeadPosition(b)
    IN  IF index # None
        THEN [found |-> TRUE, buf |-> Advance(b, index[1])]
        ELSE [found |-> FALSE, buf |-> <<>>]

\* mutant: with no sync word in it the buffer is cut down to its last byte
find_frame_head_KeepLast(b) ==
    LET index == HeadPosition(b)
    IN  IF index # None
        THEN [found |-> TRUE, buf |-> Advance(b, index[1])]
        ELSE [found |-> FALSE,
              buf |-> IF b = <<>> THEN b ELSE <<b[Len(b)]>>]

\* mutant: the sync word is found but the bytes ahead of it are not dropped
find_frame_head_NoAdvance(b) ==
    [found |-> HeadPosition(b) # None, buf |-> b]

\* find_frame_head: <<found, buf after the call>>
find_frame_head(b) ==
    LET index == HeadPosition(b)
    IN  IF index # None
        THEN [found |-> TRUE, buf |-> Advance(b, index[1])]
        ELSE [found |-> FALSE, buf |-> b]

\* mutant: the flags are masked but not shifted down before the cast to u8
decode_length_flags_NoShift(len_field) ==
    [data_len |-> BitAnd(len_field, DATA_LENGTH_MASK),
     flags    |-> BitAnd(len_field, FLAGS_MASK) % 256]

\* mutant: the length is taken from the high byte of the masked field
decode_length_flags_HighByte(len_field) ==
    [data_len |-> BitAnd(len_field, DATA_LENGTH_MASK) \div 256,
     flags    |-> BitAnd(len_field, FLAGS_MASK) \div (2 ^ 13)]

\* decode_length_flags: (data_len, flags)
decode_length_flags(len_field) ==
    [data_len |-> BitAnd(len_field, DATA_LENGTH_MASK),
     flags    |-> BitAnd(len_field, FLAGS_MASK) \div (2 ^ 13)]

\* mutant: the BCC byte is left out of the frame length
is_frame_complete_NoBcc(b) ==
    LET min_len == FRAME_FIXED_LEN + FRAME_BCC_LEN
    IN  IF Len(b) < min_len THEN None
        ELSE LET len_field == U16FromLe(b[8], b[9])
                 frame_len == decode_length_flags(len_field).data_len
                                 + FRAME_FIXED_LEN
             IN  IF Len(b) < frame_len THEN None ELSE Some(frame_len)

\* mutant: the frame length is returned whether or not the frame has arrived
is_frame_complete_Unchecked(b) ==
    LET min_len == FRAME_FIXED_LEN + FRAME_BCC_LEN
    IN  IF Len(b) < min_len THEN None
        ELSE LET len_field == U16FromLe(b[8], b[9])
                 frame_len == decode_length_flags(len_field).data_len + min_len
             IN  Some(frame_len)

\* mutant: a frame counts as complete once a byte more than it has arrived
is_frame_complete_OneMore(b) ==
    LET min_len == FRAME_FIXED_LEN + FRAME_BCC_LEN
    IN  IF Len(b) < min_len THEN None
        ELSE LET len_field == U16FromLe(b[8], b[9])
                 frame_len == decode_length_flags(len_field).data_len + min_len
             IN  IF Len(b) <= frame_len THEN None ELSE Some(frame_len)

\* BlnProtocol::is_frame_complete: Option<frame_len>
is_frame_complete(b) ==
    LET min_len == FRAME_FIXED_LEN + FRAME_BCC_LEN
    IN  IF Len(b) < min_len THEN None
        ELSE LET len_field == U16FromLe(b[8], b[9])
                 frame_len == decode_length_flags(len_field).data_len + min_len
             IN  IF Len(b) < frame_len THEN None ELSE Some(frame_len)

\* BlnCommandDecode::is_frame_complete: Option<frame_len>
BlnCommandDecode_is_frame_complete(b) ==
    LET min_len == FRAME_FIXED_LEN + FRAME_BCC_LEN
    IN  IF Len(b) < min_len THEN None
        ELSE LET len_field == U16FromBe(b[8], b[9])
                 frame_len == decode_length_flags(len_field).data_len + min_len
             IN  IF Len(b) < frame_len THEN None ELSE Some(frame_len)

\* the BCC test of parse_protocol_frame on the frame at the buffer start
BccMatches(b, frame_len) ==
    calculate_bcc(SubSeq(b, FRAME_HEAD_LEN + 1, frame_len - FRAME_BCC_LEN))
        = b[frame_len - FRAME_BCC_LEN + 1]

\* BlnProtocol::parse_protocol_frame, the Command built from a frame that
\* passed the BCC test (frame_data is the frame split off the buffer)
ParseFrame(frame_data) ==
    LET cmd_type_byte == frame_data[FRAME_HEAD_LEN + 1]
        at == FRAME_HEAD_LEN + 1 + RESERVED_LEN
        lf == decode_length_flags(U16FromLe(frame_data[at + 1], frame_data[at + 2]))
        payload == IF lf.data_len > 0
                   THEN Some(SubSeq(frame_data, at + 3, at + 2 + lf.data_len))
                   ELSE None
    IN  [cmd_type |-> <<cmd_type_byte>>,
         response_status |-> Some(lf.flags),
         payload |-> payload]

\* BlnCommandDecode::parse_protocol_frame, the same step (get_u16: big-endian)
BlnCommandDecode_ParseFrame(frame_data) ==
    LET cmd_type_byte == frame_data[FRAME_HEAD_LEN + 1]
        at == FRAME_HEAD_LEN + 1 + RESERVED_LEN
        lf == decode_length_flags(U16FromBe(frame_data[at + 1], frame_data[at + 2]))
        payload == IF lf.data_len > 0
                   THEN Some(SubSeq(frame_data, at + 3, at + 2 + lf.data_len))
                   ELSE None
    IN  [cmd_type |-> <<cmd_type_byte>>,
         response_status |-> Some(lf.flags),
         payload |-> payload]

\* mutant: a frame that fails the BCC test stays in the buffer
BccFailDiscard_Nothing(b, frame_len) == b

\* BlnProtocol: what is dropped from the buffer when the BCC test fails
BccFailDiscard(b, frame_len) == Advance(b, frame_len)

\* BlnCommandDecode: what is dropped from the buffer when the BCC test fails
BlnCommandDecode_BccFailDiscard(b, frame_len) == Advance(b, 1)

\* BlnProtocol::parse_protocol_frame, the loop: [buf, command_list] at the break
RECURSIVE ParseLoop(_, _)
ParseLoop(b, command_list) ==
    LET head == find_frame_head(b)
        complete == IF head.found THEN is_frame_complete(head.buf) ELSE None
    IN  IF head.found /\ complete # None
        THEN LET frame_len == complete[1]
             IN  IF BccMatches(head.buf, frame_len)
                 THEN ParseLoop(Advance(head.buf, frame_len),
                                Append(command_list,
                                       ParseFrame(SubSeq(head.buf, 1, frame_len))))
                 ELSE ParseLoop(BccFailDiscard(head.buf, frame_len), command_list)
        ELSE [buf |-> head.buf, command_list |-> command_list]

\* BlnCommandDecode::parse_protocol_frame, the loop
RECURSIVE BlnCommandDecode_ParseLoop(_, _)
BlnCommandDecode_ParseLoop(b, command_list) ==
    LET head == find_frame_head(b)
        complete == IF head.found
                    THEN BlnCommandDecode_is_frame_complete(head.buf) ELSE None
    IN  IF head.found /\ complete # None
        THEN LET frame_len == complete[1]
             IN  IF BccMatches(head.buf, frame_len)
                 THEN BlnCommandDecode_ParseLoop(
                          Advance(head.buf, frame_len),
                          Append(command_list,
                                 BlnCommandDecode_ParseFrame(
                                     SubSeq(head.buf, 1, frame_len))))
                 ELSE BlnCommandDecode_ParseLoop(
                          BlnCommandDecode_BccFailDiscard(head.buf, frame_len),
                          command_list)
        ELSE [buf |-> head.buf, command_list |-> command_list]

\* mutant: the commands of one call are returned last frame first
parse_protocol_frame_Reversed(b) ==
    LET r == ParseLoop(b, <<>>)
        k == Len(r.command_list)
    IN  [buf |-> r.buf,
         command_list |-> [i \in 1..k |-> r.command_list[k + 1 - i]]]

\* parse_protocol_frame of either implementation: the buffer it leaves and the
\* commands it returns (an empty list stands for None)
parse_protocol_frame(b) == ParseLoop(b, <<>>)

BlnCommandDecode_parse_protocol_frame(b) == BlnCommandDecode_ParseLoop(b, <<>>)

\* command.payload.unwrap_or_default()
UnwrapOrDefault(opt) == IF opt = None THEN <<>> ELSE opt[1]

\* mutant: the checksum is taken over the whole buffer, sync word included
create_frame_BccWithHead(c) ==
    IF Len(c.cmd_type) # 1 THEN Err("InvalidCommandType")
    ELSE LET cmd_byte == c.cmd_type[1]
             data == UnwrapOrDefault(c.payload)
             data_len == Len(data)
             b == FRAME_HEAD \o <<cmd_byte>> \o <<0, 0, 0, 0>>
                    \o PutU16Le(AsU16(data_len)) \o data
         IN  Ok(b \o <<calculate_bcc(b)>>)

\* mutant: only an empty cmd_type is refused
create_frame_AnyCmdType(c) ==
    IF Len(c.cmd_type) = 0 THEN Err("InvalidCommandType")
    ELSE LET cmd_byte == c.cmd_type[1]
             data == UnwrapOrDefault(c.payload)
             data_len == Len(data)
             b == FRAME_HEAD \o <<cmd_byte>> \o <<0, 0, 0, 0>>
                    \o PutU16Le(AsU16(data_len)) \o data
         IN  Ok(b \o <<calculate_bcc(Advance(b, FRAME_HEAD_LEN))>>)

\* BlnProtocol::create_frame on a Command: Result<Bytes, ProtocolError>
create_frame(c) ==
    IF Len(c.cmd_type) # 1 THEN Err("InvalidCommandType")
    ELSE LET cmd_byte == c.cmd_type[1]
             data == UnwrapOrDefault(c.payload)
             data_len == Len(data)
             b == FRAME_HEAD \o <<cmd_byte>> \o <<0, 0, 0, 0>>
                    \o PutU16Le(AsU16(data_len)) \o data
         IN  Ok(b \o <<calculate_bcc(Advance(b, FRAME_HEAD_LEN))>>)

\* BlnCommandEncoder::create_frame: Result<Bytes, ProtocolError>
BlnCommandEncoder_create_frame(c) ==
    IF Len(c.cmd_type) # 1 THEN Err("InvalidCommandType")
    ELSE LET cmd_byte == c.cmd_type[1]
             data == UnwrapOrDefault(c.payload)
             data_len == Len(data)
             b == FRAME_HEAD \o <<cmd_byte>> \o [i \in 1..RESERVED_LEN |-> 0]
                    \o PutU16Be(AsU16(data_len)) \o data
         IN  Ok(b \o <<calculate_bcc(Advance(b, FRAME_HEAD_LEN))>>)

----------------------------------------------------------------------------
(* protocol/src/bln/types.rs and protocol/src/bln/conversions.rs *)

\* mutant: only the two low bits of the raw value are looked at
BlnResponseStatus_from_LowBits(value) ==
    CASE value % 4 = 0 -> "Unused"
      [] value % 4 = 1 -> "Ok"
      [] value % 4 = 2 -> "OkWithData"
      [] OTHER -> "Error"

\* mutant: raw 3 is not told apart from the reserved values
BlnResponseStatus_from_NoError(value) ==
    CASE value = 0 -> "Unused"
      [] value = 1 -> "Ok"
      [] value = 2 -> "OkWithData"
      [] OTHER -> "Reserved"

\* impl From<u8> for BlnResponseStatus
BlnResponseStatus_from(value) ==
    CASE value = 0 -> "Unused"
      [] value = 1 -> "Ok"
      [] value = 2 -> "OkWithData"
      [] value = 3 -> "Error"
      [] OTHER -> "Reserved"

\* impl From<BlnResponseStatus> for u8: `value as u8`, the discriminant
BlnResponseStatus_into_u8(value) ==
    CASE value = "Unused" -> 0
      [] value = "Ok" -> 1
      [] value = "OkWithData" -> 2
      [] value = "Error" -> 3
      [] value = "Reserved" -> 4

\* mutant: only the three low bits of the raw value are looked at
BlnErrorCause_from_LowBits(value) ==
    CASE value % 8 = 0 -> "Success"
      [] value % 8 = 1 -> "ChecksumError"
      [] value % 8 = 2 -> "InvalidArgument"
      [] value % 8 = 3 -> "OperationFailed"
      [] value % 8 = 4 -> "ConfigNotFound"
      [] value % 8 = 5 -> "InternalError"
      [] value % 8 = 6 -> "StateMismatch"
      [] OTHER -> "NoValidData"

\* impl From<u8> for BlnErrorCause
BlnErrorCause_from(value) ==
    CASE value = 0 -> "Success"
      [] value = 1 -> "ChecksumError"
      [] value = 2 -> "InvalidArgument"
      [] value = 3 -> "OperationFailed"
      [] value = 4 -> "ConfigNotFound"
      [] value = 5 -> "InternalError"
      [] value = 6 -> "StateMismatch"
      [] value = 7 -> "NoValidData"
      [] value = 255 -> "UnspecifiedError"
      [] OTHER -> "UnspecifiedError"

\* mutant: the four bytes are written high byte first
PutF32Le_BigEndian(bits) ==
    <<(bits \div 16777216) % 256, (bits \div 65536) % 256, (bits \div 256) % 256,
      bits % 256>>

\* impl From<BlnErrorCause> for u8: `value as u8`, the discriminant
BlnErrorCause_into_u8(value) ==
    CASE value = "Success" -> 0
      [] value = "ChecksumError" -> 1
      [] value = "InvalidArgument" -> 2
      [] value = "OperationFailed" -> 3
      [] value = "ConfigNotFound" -> 4
      [] value = "InternalError" -> 5
      [] value = "StateMismatch" -> 6
      [] value = "NoValidData" -> 7
      [] value = "UnspecifiedError" -> 255

\* put_f32_le: the four bytes of the bit pattern, low byte first
PutF32Le(bits) ==
    <<bits % 256, (bits \div 256) % 256, (bits \div 65536) % 256,
      (bits \div 16777216) % 256>>

\* mutant: the four bytes are read high byte first
GetF32Le_BigEndian(p, at) ==
    16777216 * p[at] + 65536 * p[at + 1] + 256 * p[at + 2] + p[at + 3]

\* get_f32_le at 1-based offset at of payload p
GetF32Le(p, at) ==
    p[at] + 256 * p[at + 1] + 65536 * p[at + 2] + 16777216 * p[at + 3]

\* the BlnProtocolType variants
SetPositionRsq(x, y) == [tag |-> "SetPositionRsq", x |-> x, y |-> y]
SetPositionRsp == [tag |-> "SetPositionRsp"]
PositionReached(x, y) == [tag |-> "PositionReached", x |-> x, y |-> y]
GetPositionRsq == [tag |-> "GetPositionRsq"]
GetPositionRsp(x, y, f) == [tag |-> "GetPositionRsp", x |-> x, y |-> y, flag |-> f]
ErrorRsp(cause) == [tag |-> "ErrorRsp", cause |-> cause]

\* mutant: an absent response_status is read as 0 (unwrap_or_default)
BlnProtocolType_try_from_StatusDefault(value) ==
    IF value.cmd_type = <<>> THEN Err("InvalidCommandType")
    ELSE
    LET cmd_byte == value.cmd_type[1]
        status == BlnResponseStatus_from(
                      IF value.response_status = None THEN 0
                      ELSE value.response_status[1])
        payload == value.payload
    IN  IF status = "Error"
        THEN IF payload = None THEN Err("InvalidPayload")
             ELSE IF Len(payload[1]) # 1 THEN Err("InvalidPayload")
             ELSE Ok(ErrorRsp(BlnErrorCause_from(payload[1][1])))
        ELSE CASE cmd_byte = 145 ->
                    ( CASE status = "Ok" ->
                              IF payload # None THEN Err("InvalidPayload")
                              ELSE Ok(SetPositionRsp)
                        [] status = "OkWithData" ->
                              IF payload = None THEN Err("InvalidPayload")
                              ELSE IF Len(payload[1]) # 8 THEN Err("InvalidPayload")
                              ELSE Ok(PositionReached(GetF32Le(payload[1], 1),
                                                      GetF32Le(payload[1], 5)))
                        [] OTHER -> Err("InvalidPayload") )
               [] cmd_byte = 147 ->
                    IF status # "OkWithData" THEN Err("InvalidPayload")
                    ELSE IF payload = None THEN Err("InvalidPayload")
                    ELSE IF Len(payload[1]) # 9 THEN Err("InvalidPayload")
                    ELSE Ok(GetPositionRsp(GetF32Le(payload[1], 1),
                                           GetF32Le(payload[1], 5),
                                           payload[1][9]))
               [] OTHER -> Err("InvalidCommandType")

\* impl TryFrom<Command> for BlnProtocolType (the spec's to_event)
BlnProtocolType_try_from(value) ==
    IF value.cmd_type = <<>> THEN Err("InvalidCommandType")
    ELSE IF value.response_status = None THEN Err("InvalidPayload")
    ELSE
    LET cmd_byte == value.cmd_type[1]
        status == BlnResponseStatus_from(value.response_status[1])
        payload == value.payload
    IN  IF status = "Error"
        THEN IF payload = None THEN Err("InvalidPayload")
             ELSE IF Len(payload[1]) # 1 THEN Err("InvalidPayload")
             ELSE Ok(ErrorRsp(BlnErrorCause_from(payload[1][1])))
        ELSE CASE cmd_byte = 145 ->
                    ( CASE status = "Ok" ->
                              IF payload # None THEN Err("InvalidPayload")
                              ELSE Ok(SetPositionRsp)
                        [] status = "OkWithData" ->
                              IF payload = None THEN Err("InvalidPayload")
                              ELSE IF Len(payload[1]) # 8 THEN Err("InvalidPayload")
                              ELSE Ok(PositionReached(GetF32Le(payload[1], 1),
                                                      GetF32Le(payload[1], 5)))
                        [] OTHER -> Err("InvalidPayload") )
               [] cmd_byte = 147 ->
                    IF status # "OkWithData" THEN Err("InvalidPayload")
                    ELSE IF payload = None THEN Err("InvalidPayload")
                    ELSE IF Len(payload[1]) # 9 THEN Err("InvalidPayload")
                    ELSE Ok(GetPositionRsp(GetF32Le(payload[1], 1),
                                           GetF32Le(payload[1], 5),
                                           payload[1][9]))
               [] OTHER -> Err("InvalidCommandType")

\* mutant: an ErrorRsp is turned into a Command carrying the cause
Command_try_from_ErrorRsp(value) ==
    CASE value.tag = "SetPositionRsq" ->
            Ok([cmd_type |-> <<49>>,
                response_status |-> None,
                payload |-> Some(PutF32Le(value.x) \o PutF32Le(value.y))])
      [] value.tag = "GetPositionRsq" ->
            Ok([cmd_type |-> <<51>>,
                response_status |-> None,
                payload |-> None])
      [] value.tag = "ErrorRsp" ->
            Ok([cmd_type |-> <<145>>,
                response_status |-> Some(3),
                payload |-> None])
      [] OTHER -> Err("InvalidCommandType")

\* impl TryFrom<BlnProtocolType> for Command (the spec's to_command)
Command_try_from(value) ==
    CASE value.tag = "SetPositionRsq" ->
            Ok([cmd_type |-> <<49>>,
                response_status |-> None,
                payload |-> Some(PutF32Le(value.x) \o PutF32Le(value.y))])
      [] value.tag = "GetPositionRsq" ->
            Ok([cmd_type |-> <<51>>,
                response_status |-> None,
                payload |-> None])
      [] OTHER -> Err("InvalidCommandType")

----------------------------------------------------------------------------
(* Inputs: what the device puts on the wire and what the caller submits *)

\* longest run of noise bytes ahead of a frame
MaxNoise == 2
\* longest payload of a frame the device sends or the caller submits
\* (the one long payload BigPayload apart)
MaxPayload == 2
\* longest encoded frame that is looped back onto the wire
MaxWire == 32

NoiseBytes == {0, 85, 170}
PayloadBytes == {1, 85, 170}
WireCmds == {145, 147}
WireStatus == {0, 2, 7}
F32Samples == {1065353216, 1073741824, 43605}

SeqsUpTo(S, n) == UNION {[1..k -> S] : k \in 0..n}

\* a payload one byte longer than the 13-bit length field can announce
BigPayload == [i \in 1..(DATA_LENGTH_MASK + 1) |-> 0]

\* The frame of section 3 as the device sends it: sync, cmd, four reserved
\* bytes, the length/flags field (status in bits 13-15) in byte order `order`,
\* the payload, and the XOR of everything after the sync, with bit pattern
\* `flip` XORed onto it (0: the checksum is right).  The field announces
\* `short` payload bytes more than the frame carries (0: a complete frame).
WireFrame(order, cmd, status, payload, short, flip) ==
    LET field == status * (2 ^ 13) + Len(payload) + short
        body == <<cmd, 0, 0, 0, 0>>
                   \o (IF order = "le" THEN PutU16Le(field) ELSE PutU16Be(field))
                   \o payload
    IN  FRAME_HEAD \o body \o <<BitXor(calculate_bcc(body), flip)>>

\* the byte order in which each implementation's own encoder writes the field
NativeOrder(c) == IF c = "protocol" THEN "le" ELSE "be"

\* what may follow the frame on the wire
Trailings(order) ==
    { <<>>, <<85>>, <<170>>, <<7>>, <<85, 170>>, <<0, 85, 170>>,
      <<85, 170, 145>>,
      WireFrame(order, 147, 1, <<>>, 0, 0),
      WireFrame(order, 147, 1, <<>>, 0, 1) }

\* one frame with noise ahead of it and bytes behind it, delivered in one read
NoisyStreams(c) ==
    { [noise |-> n, order |-> NativeOrder(c), cmd |-> 145, status |-> 2,
       payload |-> p, short |-> 0, flip |-> f, trailing |-> t, looped |-> FALSE]
        : n \in SeqsUpTo(NoiseBytes, MaxNoise),
          p \in {<<>>, <<1>>, <<85, 170>>},
          f \in {0, 1},
          t \in Trailings(NativeOrder(c)) }

\* one frame alone, in either byte order
LoneStreams ==
    { [noise |-> <<>>, order |-> o, cmd |-> k, status |-> st,
       payload |-> p, short |-> 0, flip |-> f, trailing |-> <<>>,
       looped |-> FALSE]
        : o \in {"le", "be"}, k \in WireCmds, st \in WireStatus,
          p \in SeqsUpTo(PayloadBytes, MaxPayload), f \in {0, 1} }

\* the end-to-end scenario of section 8: 55 AA 91 00 00 00 00 02 00 <checksum>
EndToEnd ==
    [noise |-> <<>>, order |-> "le", cmd |-> 145, status |-> 0,
     payload |-> <<>>, short |-> 2, flip |-> 0, trailing |-> <<>>,
     looped |-> FALSE]

\* nothing on the wire: the caller's side acts first
Idle ==
    [noise |-> <<>>, order |-> "le", cmd |-> 0, status |-> 0,
     payload |-> <<>>, short |-> 0, flip |-> 0, trailing |-> <<>>,
     looped |-> TRUE]

StreamFrame(st) ==
    WireFrame(st.order, st.cmd, st.status, st.payload, st.short, st.flip)

StreamBytes(st) ==
    IF st.looped THEN <<>> ELSE st.noise \o StreamFrame(st) \o st.trailing

\* the events the caller may hand to the conversion
Events ==
    { SetPositionRsq(x, y) : x \in F32Samples, y \in F32Samples }
        \cup { GetPositionRsq, SetPositionRsp, PositionReached(1065353216, 1073741824),
               GetPositionRsp(1065353216, 1073741824, 7), ErrorRsp("ChecksumError") }

\* the Commands the caller may hand to the encoder directly
Commands ==
    { [cmd_type |-> t, response_status |-> rs, payload |-> pl]
        : t \in {<<>>, <<49>>, <<145>>, <<49, 51>>},
          rs \in {None, Some(0), Some(3)},
          pl \in {None, Some(BigPayload)}
                    \cup { Some(p) : p \in SeqsUpTo(PayloadBytes, MaxPayload) } }

----------------------------------------------------------------------------
(* The state machine *)

\* LazyApp::run has not been called
RunOff ==
    /\ wiring = "off"
    /\ transport = "up"
    /\ reader = "done" /\ writer = "done" /\ uiw = "done"
    /\ pending = <<>> /\ uiq = <<>> /\ uiSenders = 0
    /\ cmdq = <<>> /\ cmdSender = "dropped" /\ tosend = <<>>
    /\ sent = <<>> /\ written = <<>> /\ wlog = <<>>
    /\ produced = <<>> /\ delivered = <<>>
    /\ lastDraw = "none"
    /\ runpc = "returned"
    /\ surface = "released"

\* no decode call is followed step by step
DecOff ==
    /\ dpc = "off"
    /\ iters = 0
    /\ acc = <<>>
    /\ whole = <<>>

Parse(c, b) ==
    IF c = "protocol" THEN parse_protocol_frame(b)
    ELSE BlnCommandDecode_parse_protocol_frame(b)

CreateFrame(c, cmd) ==
    IF c = "protocol" THEN create_frame(cmd)
    ELSE BlnCommandEncoder_create_frame(cmd)

Init ==
    /\ codec \in {"protocol", "bln"}
    /\ stream \in NoisyStreams(codec) \cup LoneStreams \cup {EndToEnd, Idle}
    /\ wire = StreamBytes(stream)
    /\ chunk \in (IF stream.noise = <<>> /\ stream.trailing = <<>> THEN {0, 1}
                  ELSE {0})
    /\ buf = <<>>
    /\ pre = <<>>
    /\ commands = <<>>
    /\ event = None
    /\ command = None
    /\ frame = None
    /\ op = "none"
    /\ arg = <<>>
    /\ result = None
    /\ RunOff
    /\ DecOff

\* One turn of the reader's loop: a read appends the next bytes to the
\* receive buffer, then parse_protocol_frame runs on it.
Receive ==
    /\ wire # <<>>
    /\ LET n == IF chunk = 0 \/ chunk > Len(wire) THEN Len(wire) ELSE chunk
           filled == buf \o SubSeq(wire, 1, n)
           r == Parse(codec, filled)
       IN  /\ wire' = Advance(wire, n)
           /\ pre' = filled
           /\ buf' = r.buf
           /\ commands' = r.command_list
    /\ UNCHANGED <<codec, stream, chunk, event, command, frame>>
    /\ UNCHANGED conv
    /\ UNCHANGED run
    /\ UNCHANGED dec

\* The caller converts a protocol event into a Command (try_into).
Submit(e) ==
    /\ stream = Idle
    /\ command = None
    /\ event' = Some(e)
    /\ command' = Some(Command_try_from(e))
    /\ UNCHANGED <<codec, stream, wire, chunk, buf, pre, commands, frame>>
    /\ UNCHANGED conv
    /\ UNCHANGED run
    /\ UNCHANGED dec

\* The caller hands a Command to the encoder directly.
SubmitCommand(c) ==
    /\ stream = Idle
    /\ command = None
    /\ command' = Some(Ok(c))
    /\ UNCHANGED <<codec, stream, wire, chunk, buf, pre, commands, event, frame>>
    /\ UNCHANGED conv
    /\ UNCHANGED run
    /\ UNCHANGED dec

\* create_frame: a failed conversion is returned as it is (the ? operator),
\* otherwise the Command is encoded.
Encode ==
    /\ command # None
    /\ frame = None
    /\ frame' = Some(IF command[1].ok THEN CreateFrame(codec, command[1].val)
                     ELSE Err(command[1].err))
    /\ UNCHANGED <<codec, stream, wire, chunk, buf, pre, commands, event, command>>
    /\ UNCHANGED conv
    /\ UNCHANGED run
    /\ UNCHANGED dec

\* The encoded frame is put on the wire towards this side's own decoder: the
\* buffer will hold exactly the encoded bytes.
Loop ==
    /\ frame # None
    /\ frame[1].ok
    /\ Len(frame[1].val) <= MaxWire
    /\ wire = <<>>
    /\ pre = <<>>
    /\ wire' = frame[1].val
    /\ UNCHANGED <<codec, stream, chunk, buf, pre, commands, event, command, frame>>
    /\ UNCHANGED conv
    /\ UNCHANGED run
    /\ UNCHANGED dec

Next ==
    \/ Receive
    \/ \E e \in Events : Submit(e)
    \/ \E c \in Commands : SubmitCommand(c)
    \/ Encode
    \/ Loop

Spec == Init /\ [][Next]_vars

----------------------------------------------------------------------------
(* The conversions and the checksum called on their own: one call per run, *)
(* on an argument drawn from a bounded set                                 *)

\* longest byte sequence handed to calculate_bcc
MaxBccLen == 3

BccBytes == {0, 1, 85, 170, 255}

\* flip bit `bit` of the byte at 1-based position `at` (at = 0: no byte)
FlipBit(d, at, bit) ==
    IF at = 0 THEN d
    ELSE [d EXCEPT ![at] =
             IF (@ \div (2 ^ bit)) % 2 = 1 THEN @ - 2 ^ bit ELSE @ + 2 ^ bit]

\* a byte sequence and the place of one bit in it
BccArgs ==
    { a \in [data : SeqsUpTo(BccBytes, MaxBccLen), at : 0..MaxBccLen, bit : 0..7] :
        /\ a.at <= Len(a.data)
        /\ (a.at = 0) <=> (a.data = <<>> /\ a.bit = 0) }

\* the wire bytes of the sample f32 values (little-endian IEEE-754)
F32Wire ==
    (1065353216 :> <<0, 0, 128, 63>>) @@ (1073741824 :> <<0, 0, 0, 64>>)
        @@ (43605 :> <<85, 170, 0, 0>>)

ConvCmdTypes ==
    { <<>>, <<145>>, <<147>>, <<49>>, <<51>>, <<170>>,
      <<145, 0>>, <<147, 145>>, <<49, 145>> }

ConvStatuses == {None} \cup { Some(v) : v \in {0, 1, 2, 3, 4, 5, 7, 255} }

ConvPayloads ==
    {None, Some(<<>>), Some(<<1, 2>>), Some(<<1, 2, 3, 4, 5, 6, 7>>),
     Some(<<1, 2, 3, 4, 5, 6, 7, 8, 9, 10>>)}
        \cup { Some(<<b>>) : b \in {0, 1, 7, 8, 255} }
        \cup { Some(F32Wire[x] \o F32Wire[y]) : x \in F32Samples, y \in F32Samples }
        \cup { Some(F32Wire[x] \o F32Wire[y] \o <<f>>) :
                 x \in F32Samples, y \in F32Samples, f \in {0, 7} }

\* the Commands handed to to_event
ConvCommands ==
    [cmd_type : ConvCmdTypes, response_status : ConvStatuses, payload : ConvPayloads]

ErrorCauses ==
    {"Success", "ChecksumError", "InvalidArgument", "OperationFailed",
     "ConfigNotFound", "InternalError", "StateMismatch", "NoValidData",
     "UnspecifiedError"}

\* the events handed to to_command
ConvEvents ==
    { SetPositionRsq(x, y) : x \in F32Samples, y \in F32Samples }
        \cup { PositionReached(x, y) : x \in F32Samples, y \in F32Samples }
        \cup { GetPositionRsp(x, y, f) : x \in F32Samples, y \in F32Samples, f \in {0, 7} }
        \cup { ErrorRsp(c) : c \in ErrorCauses }
        \cup { GetPositionRsq, SetPositionRsp }

ConvInit ==
    /\ codec = "protocol"
    /\ stream = Idle
    /\ wire = <<>>
    /\ chunk = 0
    /\ buf = <<>>
    /\ pre = <<>>
    /\ commands = <<>>
    /\ event = None
    /\ command = None
    /\ frame = None
    /\ result = None
    /\ RunOff
    /\ DecOff
    /\ \/ op = "to_event" /\ arg \in ConvCommands
       \/ op = "to_command" /\ arg \in ConvEvents
       \/ op = "calculate_bcc" /\ arg \in BccArgs
       \/ op = "status" /\ arg \in 0..255
       \/ op = "cause" /\ arg \in 0..255

codecVars == <<codec, stream, wire, chunk, buf, pre, commands, event, command, frame>>

\* command.try_into(): Command -> BlnProtocolType
ToEvent ==
    /\ op = "to_event"
    /\ result = None
    /\ result' = Some(BlnProtocolType_try_from(arg))
    /\ UNCHANGED <<op, arg>>
    /\ UNCHANGED codecVars
    /\ UNCHANGED run
    /\ UNCHANGED dec

\* protocol_type.try_into(): BlnProtocolType -> Command
ToCommand ==
    /\ op = "to_command"
    /\ result = None
    /\ result' = Some(Command_try_from(arg))
    /\ UNCHANGED <<op, arg>>
    /\ UNCHANGED codecVars
    /\ UNCHANGED run
    /\ UNCHANGED dec

\* calculate_bcc on the data, on the data with its checksum appended and on
\* the data with one bit flipped
Checksum ==
    /\ op = "calculate_bcc"
    /\ result = None
    /\ result' = Some([bcc     |-> calculate_bcc(arg.data),
                       closed  |-> calculate_bcc(arg.data \o <<calculate_bcc(arg.data)>>),
                       flipped |-> calculate_bcc(FlipBit(arg.data, arg.at, arg.bit))])
    /\ UNCHANGED <<op, arg>>
    /\ UNCHANGED codecVars
    /\ UNCHANGED run
    /\ UNCHANGED dec

\* BlnResponseStatus::from(raw) and u8::from of the result
StatusFrom ==
    /\ op = "status"
    /\ result = None
    /\ result' = Some([status |-> BlnResponseStatus_from(arg),
                       raw    |-> BlnResponseStatus_into_u8(BlnResponseStatus_from(arg))])
    /\ UNCHANGED <<op, arg>>
    /\ UNCHANGED codecVars
    /\ UNCHANGED run
    /\ UNCHANGED dec

\* BlnErrorCause::from(raw) and u8::from of the result
CauseFrom ==
    /\ op = "cause"
    /\ result = None
    /\ result' = Some([cause |-> BlnErrorCause_from(arg),
                       raw   |-> BlnErrorCause_into_u8(BlnErrorCause_from(arg))])
    /\ UNCHANGED <<op, arg>>
    /\ UNCHANGED codecVars
    /\ UNCHANGED run
    /\ UNCHANGED dec

ConvNext ==
    \/ ToEvent
    \/ ToCommand
    \/ Checksum
    \/ StatusFrom
    \/ CauseFrom

ConvSpec == ConvInit /\ [][ConvNext]_vars

----------------------------------------------------------------------------
(* app/src/app.rs: LazyApp::run, its three tasks and its two channels *)

\* mpsc::channel::<Command>(10), both channels
ChannelCapacity == 10

\* most frames the device sends in one burst
MaxBurst == 12

\* most Commands the holder of the outbound sender sends
MaxOutbound == 3

\* the i-th frame of a burst: cmd 0x91, status OkWithData, payload [i]
BurstFrame(c, i, flip) == WireFrame(NativeOrder(c), 145, 2, <<i>>, 0, flip)

RECURSIVE Burst(_, _)
Burst(c, n) == IF n = 0 THEN <<>> ELSE Burst(c, n - 1) \o BurstFrame(c, n, 0)

\* what the device sends during one run
RunWires(c) ==
    { <<>>,
      Burst(c, MaxBurst),
      BurstFrame(c, 1, 0) \o BurstFrame(c, 2, 1) \o BurstFrame(c, 3, 0)
          \o BurstFrame(c, 4, 0) }

\* the Commands sent into the outbound channel
OutboundCommands ==
    { [cmd_type |-> <<49>>, response_status |-> None, payload |-> Some(<<1>>)],
      [cmd_type |-> <<51>>, response_status |-> None, payload |-> None],
      [cmd_type |-> <<>>, response_status |-> None, payload |-> None] }

\* cs numbered from `from` + 1 on
Numbered(cs, from) == [i \in 1..Len(cs) |-> [n |-> from + i, cmd |-> cs[i]]]

\* The state once run() has spawned its tasks and waits in join!.  wiring
\* "run": as written, _command_sender is a local of run() that nothing uses.
\* wiring "handed": the outbound sender is in the hands of a producer that
\* sends Commands and then drops it; the tasks are the same.
RunInit ==
    /\ codec \in {"protocol", "bln"}
    /\ stream = Idle
    /\ wiring \in {"run", "handed"}
    /\ IF wiring = "run"
       THEN wire \in RunWires(codec) /\ chunk \in {0, 7} /\ tosend = <<>>
       ELSE wire = <<>> /\ chunk = 0
               /\ tosend \in SeqsUpTo(OutboundCommands, MaxOutbound)
    /\ buf = <<>> /\ pre = <<>> /\ commands = <<>>
    /\ event = None /\ command = None /\ frame = None
    /\ op = "none" /\ arg = <<>> /\ result = None
    /\ transport = "up"
    /\ reader = "running" /\ writer = "running" /\ uiw = "running"
    /\ pending = <<>> /\ uiq = <<>> /\ uiSenders = 2
    /\ cmdq = <<>> /\ cmdSender = "held"
    /\ sent = <<>> /\ written = <<>> /\ wlog = <<>>
    /\ produced = <<>> /\ delivered = <<>>
    /\ lastDraw = "none"
    /\ runpc = "join"
    /\ surface = "acquired"
    /\ DecOff

idleVars == <<codec, stream, chunk, event, command, frame, op, arg, result, wiring>>

\* the peer closes the connection: once the bytes it sent are delivered,
\* every read returns Ok(0); writes are still taken
PeerClose ==
    /\ wiring # "off"
    /\ transport = "up"
    /\ transport' = "closed"
    /\ UNCHANGED <<wire, buf, pre, commands, reader, writer, uiw, pending, uiq,
                   uiSenders, cmdq, cmdSender, tosend, sent, written, wlog,
                   produced, delivered, lastDraw, runpc, surface>>
    /\ UNCHANGED idleVars
    /\ UNCHANGED dec

\* the link fails: every later read and write returns Err
TransportFail ==
    /\ wiring # "off"
    /\ transport \in {"up", "closed"}
    /\ transport' = "failed"
    /\ UNCHANGED <<wire, buf, pre, commands, reader, writer, uiw, pending, uiq,
                   uiSenders, cmdq, cmdSender, tosend, sent, written, wlog,
                   produced, delivered, lastDraw, runpc, surface>>
    /\ UNCHANGED idleVars
    /\ UNCHANGED dec

\* reader task: read_frame returns Ok, parse_protocol_frame runs on the buffer
ReaderRead ==
    /\ reader = "running"
    /\ pending = <<>>
    /\ transport \in {"up", "closed"}
    /\ wire # <<>>
    /\ LET n == IF chunk = 0 \/ chunk > Len(wire) THEN Len(wire) ELSE chunk
           filled == buf \o SubSeq(wire, 1, n)
       IN  \E r \in {Parse(codec, filled)} :
               /\ wire' = Advance(wire, n)
               /\ pre' = filled
               /\ buf' = r.buf
               /\ commands' = r.command_list
               /\ pending' = Numbered(r.command_list, Len(produced))
               /\ produced' = produced \o Numbered(r.command_list, Len(produced))
    /\ UNCHANGED <<transport, reader, writer, uiw, uiq, uiSenders, cmdq,
                   cmdSender, tosend, sent, written, wlog, delivered, lastDraw,
                   runpc, surface>>
    /\ UNCHANGED idleVars
    /\ UNCHANGED dec

\* mutant: a full channel gives up its oldest event for the new one
ReaderForward_DropOldest ==
    /\ reader = "running"
    /\ pending # <<>>
    /\ uiq' = IF uiw # "running" THEN uiq
              ELSE IF Len(uiq) < ChannelCapacity THEN Append(uiq, Head(pending))
              ELSE Append(Tail(uiq), Head(pending))
    /\ pending' = Tail(pending)
    /\ UNCHANGED <<wire, buf, pre, commands, transport, reader, writer, uiw,
                   uiSenders, cmdq, cmdSender, tosend, sent, written, wlog,
                   produced, delivered, lastDraw, runpc, surface>>
    /\ UNCHANGED idleVars
    /\ UNCHANGED dec

\* reader task: sender.try_send(command) for the next Command of the list;
\* a full channel or a dropped receiver makes it fail, which is logged
ReaderForward ==
    /\ reader = "running"
    /\ pending # <<>>
    /\ uiq' = IF uiw = "running" /\ Len(uiq) < ChannelCapacity
              THEN Append(uiq, Head(pending))
              ELSE uiq
    /\ pending' = Tail(pending)
    /\ UNCHANGED <<wire, buf, pre, commands, transport, reader, writer, uiw,
                   uiSenders, cmdq, cmdSender, tosend, sent, written, wlog,
                   produced, delivered, lastDraw, runpc, surface>>
    /\ UNCHANGED idleVars
    /\ UNCHANGED dec

\* reader task: read_frame returns Ok(0) at the end of the stream; the Ok arm
\* runs parse_protocol_frame on the buffer as it is and the loop goes on
ReaderReadEof ==
    /\ reader = "running"
    /\ pending = <<>>
    /\ transport = "closed"
    /\ wire = <<>>
    /\ \E r \in {Parse(codec, buf)} :
           /\ pre' = buf
           /\ buf' = r.buf
           /\ commands' = r.command_list
           /\ pending' = Numbered(r.command_list, Len(produced))
           /\ produced' = produced \o Numbered(r.command_list, Len(produced))
    /\ UNCHANGED <<wire, transport, reader, writer, uiw, uiq, uiSenders, cmdq,
                   cmdSender, tosend, sent, written, wlog, delivered, lastDraw,
                   runpc, surface>>
    /\ UNCHANGED idleVars
    /\ UNCHANGED dec

\* mutant: the reader task ends and its senders stay alive
ReaderReadErr_KeepsSender ==
    /\ reader = "running"
    /\ pending = <<>>
    /\ transport = "failed"
    /\ reader' = "done"
    /\ UNCHANGED <<wire, buf, pre, commands, transport, writer, uiw, pending,
                   uiq, uiSenders, cmdq, cmdSender, tosend, sent, written, wlog,
                   produced, delivered, lastDraw, runpc, surface>>
    /\ UNCHANGED idleVars
    /\ UNCHANGED dec

\* reader task: read_frame returns Err, the loop is left and the task ends,
\* dropping ui_sender and its clone
ReaderReadErr ==
    /\ reader = "running"
    /\ pending = <<>>
    /\ transport = "failed"
    /\ reader' = "done"
    /\ uiSenders' = 0
    /\ UNCHANGED <<wire, buf, pre, commands, transport, writer, uiw, pending,
                   uiq, cmdq, cmdSender, tosend, sent, written, wlog, produced,
                   delivered, lastDraw, runpc, surface>>
    /\ UNCHANGED idleVars
    /\ UNCHANGED dec

\* the holder of the outbound sender sends its next Command (send waits while
\* the channel is full)
ProducerSend ==
    /\ wiring = "handed"
    /\ cmdSender = "held"
    /\ tosend # <<>>
    /\ Len(cmdq) < ChannelCapacity
    /\ cmdq' = Append(cmdq, [n |-> Len(sent) + 1, cmd |-> Head(tosend)])
    /\ sent' = Append(sent, Head(tosend))
    /\ tosend' = Tail(tosend)
    /\ UNCHANGED <<wire, buf, pre, commands, transport, reader, writer, uiw,
                   pending, uiq, uiSenders, cmdSender, written, wlog, produced,
                   delivered, lastDraw, runpc, surface>>
    /\ UNCHANGED idleVars
    /\ UNCHANGED dec

\* the holder of the outbound sender drops it
ProducerDrop ==
    /\ wiring = "handed"
    /\ cmdSender = "held"
    /\ tosend = <<>>
    /\ cmdSender' = "dropped"
    /\ UNCHANGED <<wire, buf, pre, commands, transport, reader, writer, uiw,
                   pending, uiq, uiSenders, cmdq, tosend, sent, written, wlog,
                   produced, delivered, lastDraw, runpc, surface>>
    /\ UNCHANGED idleVars
    /\ UNCHANGED dec

\* the byte counts one write() of f may return: write() takes what the socket
\* has room for, from one byte to all of f, and write_frame does not call it
\* again for the rest
WriteLens(f) == {1, Len(f) - 1, Len(f)}

\* mutant: the writer task takes the command queued last
WriterRecv_Lifo ==
    /\ writer = "running"
    /\ cmdq # <<>>
    /\ \E c \in {cmdq[Len(cmdq)]} : \E fr \in {CreateFrame(codec, c.cmd)} :
           IF ~fr.ok
           THEN /\ wlog' = Append(wlog, "encode_err")
                /\ written' = written
           ELSE IF transport # "failed"
           THEN /\ wlog' = Append(wlog, "written")
                /\ \E k \in WriteLens(fr.val) :
                       written' = Append(written, <<c.n, SubSeq(fr.val, 1, k)>>)
           ELSE /\ wlog' = Append(wlog, "write_err")
                /\ written' = written
    /\ cmdq' = SubSeq(cmdq, 1, Len(cmdq) - 1)
    /\ UNCHANGED <<wire, buf, pre, commands, transport, reader, writer, uiw,
                   pending, uiq, uiSenders, cmdSender, tosend, sent, produced,
                   delivered, lastDraw, runpc, surface>>
    /\ UNCHANGED idleVars
    /\ UNCHANGED dec

\* mutant: an encode or write failure ends the writer task
WriterRecv_StopOnError ==
    /\ writer = "running"
    /\ cmdq # <<>>
    /\ \E c \in {Head(cmdq)} : \E fr \in {CreateFrame(codec, c.cmd)} :
           IF ~fr.ok
           THEN /\ wlog' = Append(wlog, "encode_err")
                /\ written' = written
                /\ writer' = "done"
           ELSE IF transport # "failed"
           THEN /\ wlog' = Append(wlog, "written")
                /\ \E k \in WriteLens(fr.val) :
                       written' = Append(written, <<c.n, SubSeq(fr.val, 1, k)>>)
                /\ writer' = writer
           ELSE /\ wlog' = Append(wlog, "write_err")
                /\ written' = written
                /\ writer' = "done"
    /\ cmdq' = Tail(cmdq)
    /\ UNCHANGED <<wire, buf, pre, commands, transport, reader, uiw,
                   pending, uiq, uiSenders, cmdSender, tosend, sent, produced,
                   delivered, lastDraw, runpc, surface>>
    /\ UNCHANGED idleVars
    /\ UNCHANGED dec

\* writer task: recv returns Some(command): create_frame, then write_frame;
\* a failure of either is logged and the loop goes on
WriterRecv ==
    /\ writer = "running"
    /\ cmdq # <<>>
    /\ \E c \in {Head(cmdq)} : \E fr \in {CreateFrame(codec, c.cmd)} :
           IF ~fr.ok
           THEN /\ wlog' = Append(wlog, "encode_err")
                /\ written' = written
           ELSE IF transport # "failed"
           THEN /\ wlog' = Append(wlog, "written")
                /\ \E k \in WriteLens(fr.val) :
                       written' = Append(written, <<c.n, SubSeq(fr.val, 1, k)>>)
           ELSE /\ wlog' = Append(wlog, "write_err")
                /\ written' = written
    /\ cmdq' = Tail(cmdq)
    /\ UNCHANGED <<wire, buf, pre, commands, transport, reader, writer, uiw,
                   pending, uiq, uiSenders, cmdSender, tosend, sent, produced,
                   delivered, lastDraw, runpc, surface>>
    /\ UNCHANGED idleVars
    /\ UNCHANGED dec

\* mutant: the writer task ends as soon as nothing is queued
WriterExit_OnEmpty ==
    /\ writer = "running"
    /\ cmdq = <<>>
    /\ writer' = "done"
    /\ UNCHANGED <<wire, buf, pre, commands, transport, reader, uiw, pending,
                   uiq, uiSenders, cmdq, cmdSender, tosend, sent, written, wlog,
                   produced, delivered, lastDraw, runpc, surface>>
    /\ UNCHANGED idleVars
    /\ UNCHANGED dec

\* writer task: recv returns None (no sender left, nothing queued): the task ends
WriterExit ==
    /\ writer = "running"
    /\ cmdq = <<>>
    /\ cmdSender = "dropped"
    /\ writer' = "done"
    /\ UNCHANGED <<wire, buf, pre, commands, transport, reader, uiw, pending,
                   uiq, uiSenders, cmdq, cmdSender, tosend, sent, written, wlog,
                   produced, delivered, lastDraw, runpc, surface>>
    /\ UNCHANGED idleVars
    /\ UNCHANGED dec

\* UI task: the interval ticks and terminal.draw succeeds
UiTickOk ==
    /\ uiw = "running"
    /\ lastDraw' = "ok"
    /\ UNCHANGED <<wire, buf, pre, commands, transport, reader, writer, uiw,
                   pending, uiq, uiSenders, cmdq, cmdSender, tosend, sent,
                   written, wlog, produced, delivered, runpc, surface>>
    /\ UNCHANGED idleVars
    /\ UNCHANGED dec

\* UI task: the interval ticks and terminal.draw fails: the loop is left and
\* the task ends, dropping ui_receiver and what is queued in it
UiTickErr ==
    /\ uiw = "running"
    /\ lastDraw' = "err"
    /\ uiw' = "done"
    /\ uiq' = <<>>
    /\ UNCHANGED <<wire, buf, pre, commands, transport, reader, writer, pending,
                   uiSenders, cmdq, cmdSender, tosend, sent, written, wlog,
                   produced, delivered, runpc, surface>>
    /\ UNCHANGED idleVars
    /\ UNCHANGED dec

\* UI task: the interval ticks and the draw (ui.render in it) panics: the
\* task ends by unwinding, its JoinHandle will yield Err
UiPanic ==
    /\ uiw = "running"
    /\ lastDraw' = "panic"
    /\ uiw' = "panicked"
    /\ uiq' = <<>>
    /\ UNCHANGED <<wire, buf, pre, commands, transport, reader, writer, pending,
                   uiSenders, cmdq, cmdSender, tosend, sent, written, wlog,
                   produced, delivered, runpc, surface>>
    /\ UNCHANGED idleVars
    /\ UNCHANGED dec

\* mutant: the UI task leaves its loop on a received event
UiRecv_Break ==
    /\ uiw = "running"
    /\ uiq # <<>>
    /\ delivered' = Append(delivered, Head(uiq))
    /\ uiq' = <<>>
    /\ uiw' = "done"
    /\ UNCHANGED <<wire, buf, pre, commands, transport, reader, writer,
                   pending, uiSenders, cmdq, cmdSender, tosend, sent, written,
                   wlog, produced, lastDraw, runpc, surface>>
    /\ UNCHANGED idleVars
    /\ UNCHANGED dec

\* UI task: ui_receiver.recv() returns Some(command)
UiRecv ==
    /\ uiw = "running"
    /\ uiq # <<>>
    /\ delivered' = Append(delivered, Head(uiq))
    /\ uiq' = Tail(uiq)
    /\ UNCHANGED <<wire, buf, pre, commands, transport, reader, writer, uiw,
                   pending, uiSenders, cmdq, cmdSender, tosend, sent, written,
                   wlog, produced, lastDraw, runpc, surface>>
    /\ UNCHANGED idleVars
    /\ UNCHANGED dec

\* UI task: ui_receiver.recv() returns None (no sender left, nothing queued)
UiClosed ==
    /\ uiw = "running"
    /\ uiq = <<>>
    /\ uiSenders = 0
    /\ uiw' = "done"
    /\ UNCHANGED <<wire, buf, pre, commands, transport, reader, writer, pending,
                   uiq, uiSenders, cmdq, cmdSender, tosend, sent, written, wlog,
                   produced, delivered, lastDraw, runpc, surface>>
    /\ UNCHANGED idleVars
    /\ UNCHANGED dec

\* mutant: the join does not wait for the writer task
Join_WithoutWriter ==
    /\ runpc = "join"
    /\ reader = "done" /\ uiw \in {"done", "panicked"}
    /\ runpc' = "joined"
    /\ UNCHANGED <<wire, buf, pre, commands, transport, reader, writer, uiw,
                   pending, uiq, uiSenders, cmdq, cmdSender, tosend, sent,
                   written, wlog, produced, delivered, lastDraw, surface>>
    /\ UNCHANGED idleVars
    /\ UNCHANGED dec

\* run(): tokio::join! of the three handles completes; the results, Err of a
\* panicked task included, are discarded
Join ==
    /\ runpc = "join"
    /\ reader = "done" /\ writer = "done" /\ uiw \in {"done", "panicked"}
    /\ runpc' = "joined"
    /\ UNCHANGED <<wire, buf, pre, commands, transport, reader, writer, uiw,
                   pending, uiq, uiSenders, cmdq, cmdSender, tosend, sent,
                   written, wlog, produced, delivered, lastDraw, surface>>
    /\ UNCHANGED idleVars
    /\ UNCHANGED dec

\* run(): ratatui::restore()
Restore ==
    /\ wiring # "off"
    /\ runpc = "joined"
    /\ runpc' = "restored"
    /\ surface' = "released"
    /\ UNCHANGED <<wire, buf, pre, commands, transport, reader, writer, uiw,
                   pending, uiq, uiSenders, cmdq, cmdSender, tosend, sent,
                   written, wlog, produced, delivered, lastDraw>>
    /\ UNCHANGED idleVars
    /\ UNCHANGED dec

\* run(): Ok(()) is returned and the locals of run() are dropped,
\* _command_sender among them
Return ==
    /\ wiring # "off"
    /\ runpc = "restored"
    /\ runpc' = "returned"
    /\ cmdSender' = "dropped"
    /\ UNCHANGED <<wire, buf, pre, commands, transport, reader, writer, uiw,
                   pending, uiq, uiSenders, cmdq, tosend, sent, written, wlog,
                   produced, delivered, lastDraw, surface>>
    /\ UNCHANGED idleVars
    /\ UNCHANGED dec

RunNext ==
    \/ PeerClose
    \/ TransportFail
    \/ ReaderRead
    \/ ReaderReadEof
    \/ ReaderForward
    \/ ReaderReadErr
    \/ ProducerSend
    \/ ProducerDrop
    \/ WriterRecv
    \/ WriterExit
    \/ UiTickOk
    \/ UiTickErr
    \/ UiPanic
    \/ UiRecv
    \/ UiClosed
    \/ Join
    \/ Restore
    \/ Return

RunSpec == RunInit /\ [][RunNext]_vars

\* ReaderRead always consumes at least one byte of the wire and WriterRecv
\* always takes a command off the queue, so that ENABLED <<A>>_vars of each is
\* its guard; their weak fairness is written out with the guards
ReaderReadEnabled ==
    /\ reader = "running"
    /\ pending = <<>>
    /\ transport \in {"up", "closed"}
    /\ wire # <<>>

WriterRecvEnabled ==
    /\ writer = "running"
    /\ cmdq # <<>>

\* the scheduler runs every task that can take a step; the link may stay up
\* or stay closed without failing, a draw may never fail and the producer need
\* not send.  A read at the end of the stream (ReaderReadEof) leaves the
\* reader where it was, so its being scheduled again and again adds nothing
RunFairness ==
    /\ ([]<>(~ReaderReadEnabled) \/ []<><<ReaderRead>>_vars)
    /\ WF_vars(ReaderForward) /\ WF_vars(ReaderReadErr)
    /\ ([]<>(~WriterRecvEnabled) \/ []<><<WriterRecv>>_vars)
    /\ WF_vars(WriterExit)
    /\ WF_vars(UiRecv) /\ WF_vars(UiClosed)
    /\ WF_vars(Join) /\ WF_vars(Restore) /\ WF_vars(Return)

RunLive == RunSpec /\ RunFairness

----------------------------------------------------------------------------
(* A decode call followed iteration by iteration: the device's bytes arrive *)
(* in reads of any size, each read is followed by one parse_protocol_frame  *)
(* call, and each step of the call is one turn of its loop                 *)

\* longest noise prefix of a stream
MaxDecNoise == 3

\* streams longer than this are delivered by one read
MaxSplit == 32

\* turns of the loop one call is followed for
MaxIters == 40

\* bytes without a sync word
DecNoise == { s \in SeqsUpTo(NoiseBytes, MaxDecNoise) : HeadPosition(s) = None }

\* a payload that holds a sync word followed by what reads as a frame header
\* announcing 0x1FFF (big-endian) or 0x1F1F (little-endian) payload bytes
SyncPayload == <<85, 170, 1, 0, 0, 0, 0, 31, 255>>

\* what the device sends: noise alone; noise, a frame (checksum right or
\* wrong) and trailing bytes; a frame (checksum right or wrong) and a valid
\* frame behind it
DecWires(c) ==
    DecNoise
      \cup { n \o WireFrame(NativeOrder(c), 145, 2, p, 0, f) \o t
               : n \in {<<>>, <<0>>, <<85>>, <<170, 85>>},
                 p \in {<<>>, <<1>>, <<85, 170>>},
                 f \in {0, 1},
                 t \in {<<>>, <<7>>, <<85>>} }
      \cup { WireFrame(NativeOrder(c), 145, 2, p, 0, f)
                 \o WireFrame(NativeOrder(c), 147, 1, q, 0, 0)
               : p \in {<<>>, <<85, 170>>, SyncPayload},
                 f \in {0, 1, 128},
                 q \in {<<>>, <<2>>} }

\* a payload longer than one byte of the length field can announce
LongPayload == [i \in 1..300 |-> i % 256]

\* the longest payload the 13-bit length field can announce
FullPayload == [i \in 1..DATA_LENGTH_MASK |-> 85 + 85 * (i % 2)]

\* Commands built by hand, handed to the encoder and to to_event
DecCommands ==
    [cmd_type : {<<>>, <<49>>, <<145>>, <<147>>, <<145, 0>>},
     response_status : {None, Some(0), Some(1), Some(2), Some(3)},
     payload : {None, Some(<<>>), Some(<<1>>), Some(<<85, 170>>),
                Some(<<1, 2, 3, 4, 5, 6, 7>>), Some(<<1, 2, 3, 4, 5, 6, 7, 8>>),
                Some(<<1, 2, 3, 4, 5, 6, 7, 8, 9>>),
                Some(<<1, 2, 3, 4, 5, 6, 7, 8, 9, 10>>), Some(LongPayload),
                Some(FullPayload)}]

\* is_frame_complete of the implementation under test
IsFrameComplete(c, b) ==
    IF c = "protocol" THEN is_frame_complete(b)
    ELSE BlnCommandDecode_is_frame_complete(b)

\* the length/flags field of the frame at the buffer start, as the
\* implementation under test reads it (get_u16_le / get_u16)
ReadField(c, b) ==
    IF c = "protocol" THEN U16FromLe(b[8], b[9]) ELSE U16FromBe(b[8], b[9])

\* one turn of the loop on a frame reported complete with length frame_len:
\* some slice, index, split_to, get_* or advance of it is out of bounds
TurnPanics(c, b, frame_len) ==
    \/ frame_len > Len(b)
    \/ frame_len < FRAME_FIXED_LEN + FRAME_BCC_LEN
    \/ decode_length_flags(ReadField(c, b)).data_len
           > frame_len - FRAME_FIXED_LEN

\* to_event reads past the end of the payload (get_u8 / get_f32_le panic)
ToEventPanics(value) ==
    LET r == BlnProtocolType_try_from(value)
        reads == IF ~r.ok THEN 0
                 ELSE CASE r.val.tag = "ErrorRsp" -> 1
                        [] r.val.tag = "PositionReached" -> 8
                        [] r.val.tag = "GetPositionRsp" -> 9
                        [] OTHER -> 0
    IN  reads > Len(UnwrapOrDefault(value.payload))

\* create_frame indexes cmd_type[0] of an empty cmd_type
CreateFramePanics(c, cmd) == CreateFrame(c, cmd).ok /\ Len(cmd.cmd_type) = 0

DecInit ==
    /\ codec \in {"protocol", "bln"}
    /\ stream = Idle
    /\ chunk = 0
    /\ event = None
    /\ op = "none" /\ arg = <<>> /\ result = None
    /\ RunOff
    /\ \/ /\ command = None
          /\ frame = None
          /\ whole \in DecWires(codec)
       \/ /\ \E c \in DecCommands : command = Some(Ok(c))
          /\ frame = Some(CreateFrame(codec, command[1].val))
          /\ whole = IF frame[1].ok THEN frame[1].val ELSE <<>>
    /\ wire = whole
    /\ buf = <<>> /\ pre = <<>> /\ commands = <<>>
    /\ dpc = "idle"
    /\ iters = 0
    /\ acc = <<>>

\* read_frame appends n bytes to the receive buffer, parse_protocol_frame is
\* called on it with an empty command_list
DecRead(n) ==
    /\ dpc = "idle"
    /\ n \in 1..Len(wire)
    /\ n = Len(wire) \/ (command = None /\ Len(whole) <= MaxSplit)
    /\ buf' = buf \o SubSeq(wire, 1, n)
    /\ wire' = Advance(wire, n)
    /\ pre' = buf'
    /\ commands' = <<>>
    /\ iters' = 0
    /\ dpc' = "loop"
    /\ UNCHANGED <<codec, stream, chunk, event, command, frame, acc, whole>>
    /\ UNCHANGED conv
    /\ UNCHANGED run

\* one turn of the loop of parse_protocol_frame: find_frame_head, then
\* is_frame_complete, then the BCC test and one of its two arms, or the break
\* and the return of command_list
Iterate ==
    /\ dpc = "loop"
    /\ iters < MaxIters
    /\ iters' = iters + 1
    /\ \E head \in {find_frame_head(buf)} :
       \E complete \in {IF head.found THEN IsFrameComplete(codec, head.buf)
                        ELSE None} :
           IF head.found /\ complete # None
           THEN IF TurnPanics(codec, head.buf, complete[1])
                THEN /\ dpc' = "panic"
                     /\ buf' = head.buf
                     /\ UNCHANGED <<commands, acc>>
                ELSE IF BccMatches(head.buf, complete[1])
                THEN /\ commands' =
                           Append(commands,
                                  IF codec = "protocol"
                                  THEN ParseFrame(SubSeq(head.buf, 1, complete[1]))
                                  ELSE BlnCommandDecode_ParseFrame(
                                           SubSeq(head.buf, 1, complete[1])))
                     /\ buf' = Advance(head.buf, complete[1])
                     /\ UNCHANGED <<dpc, acc>>
                ELSE /\ buf' = IF codec = "protocol"
                               THEN BccFailDiscard(head.buf, complete[1])
                               ELSE BlnCommandDecode_BccFailDiscard(
                                        head.buf, complete[1])
                     /\ UNCHANGED <<dpc, commands, acc>>
           ELSE /\ buf' = head.buf
                /\ dpc' = "idle"
                /\ acc' = acc \o commands
                /\ UNCHANGED commands
    /\ UNCHANGED <<codec, stream, wire, chunk, pre, event, command, frame, whole>>
    /\ UNCHANGED conv
    /\ UNCHANGED run

\* to_event called on the Command built by hand
CallToEvent ==
    /\ dpc = "idle"
    /\ command # None
    /\ op = "none"
    /\ arg' = command[1].val
    /\ IF ToEventPanics(command[1].val)
       THEN op' = "panic" /\ result' = None
       ELSE op' = "to_event"
              /\ result' = Some(BlnProtocolType_try_from(command[1].val))
    /\ UNCHANGED codecVars
    /\ UNCHANGED run
    /\ UNCHANGED dec

DecNext ==
    \/ \E n \in 1..Len(wire) : DecRead(n)
    \/ Iterate
    \/ CallToEvent

DecSpec == DecInit /\ [][DecNext]_vars

\* Iterate counts its turn, so that ENABLED <<Iterate>>_vars is its guard
IterateEnabled ==
    /\ dpc = "loop"
    /\ iters < MaxIters

\* a call that has begun goes on to its next turn (the call is synchronous
\* code without an await): weak fairness of Iterate, written with its guard
DecLive == DecSpec /\ ([]<>(~IterateEnabled) \/ []<><<Iterate>>_vars)

----------------------------------------------------------------------------
(* Vocabulary of the properties *)

\* the Command a frame built from the ingredients of `st` stands for
ExpectedCommand(st) ==
    [cmd_type |-> <<st.cmd>>,
     response_status |-> Some(st.status),
     payload |-> IF st.payload = <<>> THEN None ELSE Some(st.payload)]

\* s contains the sync word 55 AA
HasSync(s) == \E i \in 1..(Len(s) - 1) : s[i] = 85 /\ s[i + 1] = 170

\* bytes behind a frame that a decode call must leave alone: no sync word in
\* them, or the start of a frame of which fewer than ten bytes have arrived
StaysTrailing(t) ==
    \/ ~HasSync(t)
    \/ Len(t) < 10 /\ SubSeq(t, 1, 2) = FRAME_HEAD /\ ~HasSync(Advance(t, 1))

\* every decoded Command mapped to an event, in order
MapAll(cs) == [i \in 1..Len(cs) |-> BlnProtocolType_try_from(cs[i])]

\* a device stream whose frame is complete, checksummed as `flip` says, in the
\* byte order of the codec under test, all of it handed to one parse call
WholeDelivered ==
    /\ ~stream.looped
    /\ stream.short = 0
    /\ stream.order = NativeOrder(codec)
    /\ pre = StreamBytes(stream)

\* the frame the encoder made is all the last parse call saw
LoopedBack ==
    /\ frame # None
    /\ frame[1].ok
    /\ pre = frame[1].val

\* the length/flags field of frame f, read in byte order `order`
FieldOf(f, order) ==
    IF order = "le" THEN f[8] + 256 * f[9] ELSE 256 * f[8] + f[9]

\* XOR of all bytes of s, bit by bit: bit k is the parity of the number of
\* bytes that have bit k set
ParityXor(s) ==
    LET ones(k) == Cardinality({i \in 1..Len(s) : (s[i] \div (2 ^ k)) % 2 = 1})
    IN  (ones(0) % 2) + 2 * (ones(1) % 2) + 4 * (ones(2) % 2) + 8 * (ones(3) % 2)
          + 16 * (ones(4) % 2) + 32 * (ones(5) % 2) + 64 * (ones(6) % 2)
          + 128 * (ones(7) % 2)

IsRequest(e) == e.tag \in {"SetPositionRsq", "GetPositionRsq"}

----------------------------------------------------------------------------
(* C1 *)

\* C1, as stated: for a request event e, to_command, encode, decode of a buffer
\* holding exactly the encoded bytes and to_event of each decoded Command give
\* the one-element sequence [e].
C1_RoundTripToEvent ==
    (event # None /\ IsRequest(event[1]) /\ LoopedBack)
        => MapAll(commands) = <<Ok(event[1])>>

\* C1, amended: the round trip recovers the Command (same cmd_type, same
\* payload, response_status Some(0)) and empties the buffer, and to_event of
\* that Command fails with InvalidCommandType.
C1_RoundTripToCommand ==
    (event # None /\ IsRequest(event[1]) /\ LoopedBack)
        => /\ command[1].ok
           /\ commands = << [cmd_type |-> command[1].val.cmd_type,
                             response_status |-> Some(0),
                             payload |-> command[1].val.payload] >>
           /\ buf = <<>>
           /\ MapAll(commands) = <<Err("InvalidCommandType")>>

C1_Witness ==
    /\ event # None
    /\ event[1].tag = "SetPositionRsq"
    /\ LoopedBack
    /\ Len(commands) = 1
    /\ commands[1].payload = Some(PutF32Le(43605) \o PutF32Le(1065353216))

----------------------------------------------------------------------------
(* C2 *)

\* C2: a complete frame at the buffer start whose checksum byte does not match
\* yields no Command and is removed whole: what followed it is what the call
\* leaves (bytes behind it that a decode call leaves alone).
C2_CorruptFrameDiscarded ==
    (WholeDelivered /\ stream.flip # 0 /\ stream.noise = <<>>
        /\ StaysTrailing(stream.trailing))
        => commands = <<>> /\ buf = stream.trailing

\* the same for BlnProtocol alone
C2_CorruptFrameDiscarded_BlnProtocol ==
    codec = "protocol" => C2_CorruptFrameDiscarded

C2_Witness ==
    /\ codec = "protocol"
    /\ WholeDelivered /\ stream.flip # 0 /\ stream.noise = <<>>
    /\ stream.trailing = <<85, 170, 145>>
    /\ stream.payload = <<85, 170>>
    /\ buf = stream.trailing

----------------------------------------------------------------------------
(* C3 *)

\* C3, as stated: any noise bytes, one valid frame, trailing bytes: one
\* decode call returns exactly that frame's Command and leaves the trailing
\* bytes.  Stated here for trailing bytes that a decode call leaves alone, so
\* that only the noise can refute it.
C3_ResyncAnyNoise ==
    (WholeDelivered /\ stream.flip = 0 /\ StaysTrailing(stream.trailing))
        => commands = <<ExpectedCommand(stream)>> /\ buf = stream.trailing

\* C3, amended: the same for noise that does not contain the sync word and
\* trailing bytes that hold no further sync word or only the start of a frame.
C3_ResyncProgress ==
    (WholeDelivered /\ stream.flip = 0 /\ ~HasSync(stream.noise)
        /\ StaysTrailing(stream.trailing))
        => commands = <<ExpectedCommand(stream)>> /\ buf = stream.trailing

C3_Witness ==
    /\ WholeDelivered /\ stream.flip = 0
    /\ stream.noise = <<170, 85>>
    /\ stream.trailing = <<85, 170>>
    /\ stream.payload = <<85, 170>>
    /\ commands = <<ExpectedCommand(stream)>>
    /\ buf = <<85, 170>>

----------------------------------------------------------------------------
(* C4 *)

\* C4: a valid frame fed one byte per read into an empty buffer: every parse
\* call before the last byte returns no Command, the call after the last byte
\* returns exactly one, the frame's.
C4_PartialFrameStability ==
    (~stream.looped /\ stream.short = 0 /\ stream.flip = 0
        /\ stream.noise = <<>> /\ stream.trailing = <<>>
        /\ stream.order = NativeOrder(codec)
        /\ chunk = 1 /\ pre # <<>>)
        => /\ wire # <<>> => commands = <<>> /\ buf = pre
           /\ wire = <<>> => commands = <<ExpectedCommand(stream)>> /\ buf = <<>>

C4_Witness ==
    /\ ~stream.looped /\ stream.flip = 0 /\ stream.order = NativeOrder(codec)
    /\ chunk = 1
    /\ wire = <<>>
    /\ Len(pre) = 12
    /\ Len(commands) = 1

----------------------------------------------------------------------------
(* C5 *)

\* C5: from a complete frame at the buffer start whose checksum matches, the
\* decoder emits first the Command with cmd_type = the byte at offset 2,
\* response_status = Some(bits 13-15 of the length/flags field) and payload =
\* the next (bits 0-12) bytes, absent when that is 0, and the frame is consumed.
C5_DecodedCommand ==
    (WholeDelivered /\ stream.flip = 0 /\ stream.noise = <<>>)
        => LET field == FieldOf(pre, NativeOrder(codec))
               n == field % 8192
           IN  /\ Len(commands) >= 1
               /\ commands[1].cmd_type = <<pre[3]>>
               /\ commands[1].response_status = Some(field \div 8192)
               /\ commands[1].payload =
                     (IF n > 0 THEN Some(SubSeq(pre, 10, 9 + n)) ELSE None)
               /\ \E k \in 0..Len(stream.trailing) :
                     buf = Advance(stream.trailing, k)

C5_Witness ==
    /\ WholeDelivered /\ stream.flip = 0 /\ stream.noise = <<>>
    /\ stream.status = 7
    /\ commands = << [cmd_type |-> <<147>>, response_status |-> Some(7),
                      payload |-> Some(<<85, 170>>)] >>
    /\ buf = <<>>

----------------------------------------------------------------------------
(* C6 *)

\* C6, as stated: the bytes 55 AA 91 00 00 00 00 02 00 <checksum> decode to a
\* Command that to_event rejects with InvalidPayload.
C6_EndToEndInvalidPayload ==
    (stream = EndToEnd /\ pre = StreamBytes(stream))
        => MapAll(commands) = <<Err("InvalidPayload")>>

\* C6, amended: those ten bytes announce a 2-byte payload that is not there,
\* so the decoder returns no Command and keeps all ten bytes; once a frame with
\* cmd 0x91, status 0 and a 2-byte payload is complete, its Command is decoded
\* and to_event rejects it with InvalidPayload.
C6_EndToEndIncomplete ==
    /\ (stream = EndToEnd /\ pre = StreamBytes(stream))
          => commands = <<>> /\ buf = pre /\ Len(buf) = 10
    /\ (WholeDelivered /\ stream.flip = 0 /\ stream.noise = <<>>
          /\ stream.trailing = <<>>
          /\ stream.cmd = 145 /\ stream.status = 0 /\ Len(stream.payload) = 2)
          => MapAll(commands) = <<Err("InvalidPayload")>>

C6_Witness ==
    /\ stream = EndToEnd
    /\ codec = "protocol"
    /\ pre = <<85, 170, 145, 0, 0, 0, 0, 2, 0, 147>>
    /\ buf = pre
    /\ commands = <<>>

----------------------------------------------------------------------------
(* C7 *)

\* C7: the length/flags field is little-endian in both directions: the encoder
\* writes the payload length low byte first, and the decoder reads the field
\* low byte first (a complete frame with a little-endian field is decoded).
C7_LengthFieldLittleEndian ==
    /\ (frame # None /\ frame[1].ok)
          => LET n == Len(UnwrapOrDefault(command[1].val.payload))
             IN  /\ frame[1].val[8] = n % 256
                 /\ frame[1].val[9] = (n \div 256) % 256
    /\ (~stream.looped /\ stream.short = 0 /\ stream.order = "le"
          /\ stream.flip = 0 /\ stream.noise = <<>> /\ stream.trailing = <<>>
          /\ pre = StreamBytes(stream))
          => commands = <<ExpectedCommand(stream)>>

\* the same for BlnProtocol alone
C7_LengthFieldLittleEndian_BlnProtocol ==
    codec = "protocol" => C7_LengthFieldLittleEndian

----------------------------------------------------------------------------
(* C8 *)

\* C8: for every Command with a one-byte cmd_type the encoder writes a
\* length/flags field equal to payload_len & 0x1FFF: bits 13-15 are zero.
C8_StatusBitsZero ==
    (frame # None /\ frame[1].ok)
        => LET n == Len(UnwrapOrDefault(command[1].val.payload))
               field == FieldOf(frame[1].val, NativeOrder(codec))
           IN  /\ field = n % 8192
               /\ field \div 8192 = 0

\* what the code does hold to: the field is the payload length as a u16
C8_FieldIsLengthAsU16 ==
    (frame # None /\ frame[1].ok)
        => FieldOf(frame[1].val, NativeOrder(codec))
              = Len(UnwrapOrDefault(command[1].val.payload)) % 65536

----------------------------------------------------------------------------
(* C9 *)

\* C9: the encoder fails with InvalidCommandType, producing no frame, exactly
\* when the Command's cmd_type is not exactly one byte long.
C9_EncodeFailsOnCmdType ==
    (frame # None /\ command[1].ok)
        => /\ frame[1].ok <=> Len(command[1].val.cmd_type) = 1
           /\ ~frame[1].ok =>
                 frame[1].err = "InvalidCommandType" /\ frame[1].val = <<>>

C9_Witness ==
    /\ frame # None /\ command[1].ok
    /\ Len(command[1].val.cmd_type) = 2
    /\ frame[1] = Err("InvalidCommandType")

----------------------------------------------------------------------------
(* C10 *)

\* C10: every frame the encoder produces has length 10 + payload length, with
\* bytes 0-1 = 55 AA, byte 2 = the cmd byte, bytes 3-6 = 0, bytes 7-8 = the
\* length field, then the payload unchanged, then the XOR of all bytes from
\* offset 2 up to the final byte.
C10_FrameLayout ==
    (frame # None /\ frame[1].ok)
        => LET f == frame[1].val
               c == command[1].val
               data == UnwrapOrDefault(c.payload)
           IN  /\ Len(f) = 10 + Len(data)
               /\ f[1] = 85 /\ f[2] = 170
               /\ f[3] = c.cmd_type[1]
               /\ \A i \in 4..7 : f[i] = 0
               /\ FieldOf(f, NativeOrder(codec)) = Len(data) % 65536
               /\ SubSeq(f, 10, Len(f) - 1) = data
               /\ f[Len(f)] = ParityXor(SubSeq(f, 3, Len(f) - 1))

C10_Witness ==
    /\ frame # None /\ frame[1].ok
    /\ command[1].val.payload = Some(<<85, 170>>)
    /\ Len(frame[1].val) = 12
    /\ frame[1].val[12] = BitXor(BitXor(49, 2), 255)

----------------------------------------------------------------------------
(* Vocabulary of the conversion properties *)

\* a call of `o` has returned
Returned(o) == op = o /\ result # None

\* the payload is absent or of a length other than n
PayloadLenIsNot(c, n) == c.payload = None \/ Len(c.payload[1]) # n

\* the status is present and is not Error (raw 3)
StatusNotError(c) == c.response_status # None /\ c.response_status[1] # 3

\* the two sample f32 values whose wire bytes are the first 8 bytes of p
F32Pair(p) ==
    CHOOSE xy \in F32Samples \X F32Samples :
        SubSeq(p, 1, 8) = F32Wire[xy[1]] \o F32Wire[xy[2]]

----------------------------------------------------------------------------
(* C11 *)

\* C11: calculate_bcc is the XOR of all bytes with seed 0 (0 for no bytes);
\* the data followed by its checksum has checksum 0; flipping one bit of one
\* byte of the data changes the checksum.
C11_ChecksumXor ==
    Returned("calculate_bcc")
        => /\ result[1].bcc = ParityXor(arg.data)
           /\ arg.data = <<>> => result[1].bcc = 0
           /\ result[1].closed = 0
           /\ arg.at # 0 => result[1].flipped # result[1].bcc

C11_Witness ==
    /\ Returned("calculate_bcc")
    /\ arg.data = <<85, 170, 1>> /\ arg.at = 2 /\ arg.bit = 7
    /\ result[1] = [bcc |-> 254, closed |-> 0, flipped |-> 126]

----------------------------------------------------------------------------
(* C12 *)

\* C12, as stated: to_event fails with InvalidPayload for every Command whose
\* response_status is absent, whatever its cmd_type and payload.
C12_AbsentStatusAnyCmdType ==
    (Returned("to_event") /\ arg.response_status = None)
        => result[1] = Err("InvalidPayload")

\* C12, amended: so it is for every Command with a cmd_type that is not
\* empty; with an empty cmd_type the failure is InvalidCommandType.
C12_AbsentStatus ==
    (Returned("to_event") /\ arg.response_status = None)
        => result[1] = (IF arg.cmd_type = <<>> THEN Err("InvalidCommandType")
                        ELSE Err("InvalidPayload"))

C12_Witness ==
    /\ Returned("to_event")
    /\ arg = [cmd_type |-> <<49>>, response_status |-> None,
              payload |-> Some(<<1>>)]
    /\ result[1] = Err("InvalidPayload")

----------------------------------------------------------------------------
(* C13 *)

\* C13, as stated: with status Error (raw 3), for any cmd_type, a payload of
\* exactly one byte b gives ErrorRsp(BlnErrorCause::from(b)); an absent
\* payload or any other payload length gives InvalidPayload.
C13_ErrorStatusAnyCmdType ==
    (Returned("to_event") /\ arg.response_status = Some(3))
        => result[1] = (IF PayloadLenIsNot(arg, 1) THEN Err("InvalidPayload")
                        ELSE Ok(ErrorRsp(BlnErrorCause_from(arg.payload[1][1]))))

\* C13, amended: so it is for any cmd_type that is not empty, whatever its
\* bytes; an empty cmd_type gives InvalidCommandType whatever the payload.
C13_ErrorStatus ==
    (Returned("to_event") /\ arg.response_status = Some(3))
        => result[1] =
              (IF arg.cmd_type = <<>> THEN Err("InvalidCommandType")
               ELSE IF PayloadLenIsNot(arg, 1) THEN Err("InvalidPayload")
               ELSE Ok(ErrorRsp(BlnErrorCause_from(arg.payload[1][1]))))

C13_Witness ==
    /\ Returned("to_event")
    /\ arg = [cmd_type |-> <<49>>, response_status |-> Some(3),
              payload |-> Some(<<1>>)]
    /\ result[1] = Ok([tag |-> "ErrorRsp", cause |-> "ChecksumError"])

----------------------------------------------------------------------------
(* C14 *)

\* what C14 says to_event gives for cmd 0x91 and raw status s, a zero-length
\* payload counted as empty or not
SetPositionOutcome(c, zeroLenIsEmpty) ==
    LET s == c.response_status[1]
    IN  IF s = 1
        THEN IF c.payload = None \/ (zeroLenIsEmpty /\ c.payload = Some(<<>>))
             THEN Ok(SetPositionRsp)
             ELSE Err("InvalidPayload")
        ELSE IF s = 2 /\ ~PayloadLenIsNot(c, 8)
        THEN Ok(PositionReached(F32Pair(c.payload[1])[1], F32Pair(c.payload[1])[2]))
        ELSE Err("InvalidPayload")

\* C14: for cmd 0x91 with a status that is not Error: Ok with an empty payload
\* (absent or zero-length) gives SetPositionRsp and any non-empty payload
\* InvalidPayload; OkWithData with exactly 8 bytes gives PositionReached of the
\* two little-endian f32 and any other length InvalidPayload; every other
\* status gives InvalidPayload.
C14_SetPositionResponses ==
    (Returned("to_event") /\ arg.cmd_type = <<145>> /\ StatusNotError(arg))
        => result[1] = SetPositionOutcome(arg, TRUE)

\* what the code holds to: only an absent payload counts as empty
C14_SetPositionResponses_AbsentOnly ==
    (Returned("to_event") /\ arg.cmd_type = <<145>> /\ StatusNotError(arg))
        => result[1] = SetPositionOutcome(arg, FALSE)

----------------------------------------------------------------------------
(* C15 *)

\* C15: for cmd 0x93 with a status that is not Error, to_event gives
\* GetPositionRsp(x, y, flag) exactly when the status is OkWithData and the
\* payload is exactly 9 bytes (two little-endian f32, then one byte); every
\* other status or payload length gives InvalidPayload.
C15_GetPositionResponse ==
    (Returned("to_event") /\ arg.cmd_type = <<147>> /\ StatusNotError(arg))
        => result[1] =
              (IF arg.response_status = Some(2) /\ ~PayloadLenIsNot(arg, 9)
               THEN Ok(GetPositionRsp(F32Pair(arg.payload[1])[1],
                                      F32Pair(arg.payload[1])[2],
                                      arg.payload[1][9]))
               ELSE Err("InvalidPayload"))

C15_Witness ==
    /\ Returned("to_event")
    /\ arg = [cmd_type |-> <<147>>, response_status |-> Some(2),
              payload |-> Some(<<0, 0, 128, 63, 85, 170, 0, 0, 7>>)]
    /\ result[1] = Ok([tag |-> "GetPositionRsp", x |-> 1065353216,
                       y |-> 43605, flag |-> 7])

----------------------------------------------------------------------------
(* C16 *)

\* C16: with a present status that is not Error, to_event fails with
\* InvalidCommandType for every cmd_type other than 0x91 and 0x93, the
\* request ids and the empty cmd_type included.
C16_OtherCmdTypeRejected ==
    (Returned("to_event") /\ StatusNotError(arg)
        /\ arg.cmd_type # <<145>> /\ arg.cmd_type # <<147>>)
        => result[1] = Err("InvalidCommandType")

\* what the code holds to: the same for a cmd_type that is empty or whose
\* first byte is neither 0x91 nor 0x93
C16_OtherFirstByteRejected ==
    (Returned("to_event") /\ StatusNotError(arg)
        /\ (arg.cmd_type = <<>> \/ arg.cmd_type[1] \notin {145, 147}))
        => result[1] = Err("InvalidCommandType")

----------------------------------------------------------------------------
(* C17 *)

\* C17: to_event rejects a Command whose cmd_type holds more than one byte
\* instead of reading its first byte as the command id.  Stated for the
\* rejection alone, whichever the error.
C17_MultiByteCmdTypeRejected ==
    (Returned("to_event") /\ Len(arg.cmd_type) > 1) => ~result[1].ok

----------------------------------------------------------------------------
(* C18 *)

\* C18: to_command maps SetPositionRsq(x, y) to a Command with cmd_type
\* [0x31], no status and an 8-byte payload, x then y, each as 4 little-endian
\* bytes, and GetPositionRsq to a Command with cmd_type [0x33], no status and
\* no payload.
C18_RequestToCommand ==
    /\ (Returned("to_command") /\ arg.tag = "SetPositionRsq")
          => result[1] = Ok([cmd_type |-> <<49>>,
                             response_status |-> None,
                             payload |-> Some(F32Wire[arg.x] \o F32Wire[arg.y])])
    /\ (Returned("to_command") /\ arg.tag = "GetPositionRsq")
          => result[1] = Ok([cmd_type |-> <<51>>,
                             response_status |-> None,
                             payload |-> None])

C18_Witness ==
    /\ Returned("to_command")
    /\ arg = [tag |-> "SetPositionRsq", x |-> 1065353216, y |-> 43605]
    /\ result[1].ok
    /\ result[1].val.payload = Some(<<0, 0, 128, 63, 85, 170, 0, 0>>)

----------------------------------------------------------------------------
(* C19 *)

\* C19: to_command fails with InvalidCommandType, producing no Command, for
\* SetPositionRsp, PositionReached, GetPositionRsp and ErrorRsp.
C19_DeviceEventsNotEncodable ==
    (Returned("to_command")
        /\ arg.tag \in {"SetPositionRsp", "PositionReached", "GetPositionRsp",
                        "ErrorRsp"})
        => /\ ~result[1].ok
           /\ result[1].err = "InvalidCommandType"
           /\ result[1].val = <<>>

C19_Witness ==
    /\ Returned("to_command")
    /\ arg = [tag |-> "ErrorRsp", cause |-> "ChecksumError"]
    /\ result[1] = [ok |-> FALSE, val |-> <<>>, err |-> "InvalidCommandType"]

----------------------------------------------------------------------------
(* C20 *)

\* C20: BlnResponseStatus::from is total over the u8 values: 0 -> Unused,
\* 1 -> Ok, 2 -> OkWithData, 3 -> Error, every other value -> Reserved; the
\* result converted back to a byte is the original value for 0..4 and 4 for
\* every other input.
C20_StatusMapping ==
    Returned("status")
        => /\ result[1].status =
                 (IF arg = 0 THEN "Unused" ELSE IF arg = 1 THEN "Ok"
                  ELSE IF arg = 2 THEN "OkWithData" ELSE IF arg = 3 THEN "Error"
                  ELSE "Reserved")
           /\ result[1].raw = (IF arg <= 4 THEN arg ELSE 4)

C20_Witness ==
    /\ Returned("status")
    /\ arg = 255
    /\ result[1] = [status |-> "Reserved", raw |-> 4]

----------------------------------------------------------------------------
(* C21 *)

\* C21: BlnErrorCause::from is total over the u8 values: 0..7 give Success,
\* ChecksumError, InvalidArgument, OperationFailed, ConfigNotFound,
\* InternalError, StateMismatch, NoValidData, every other value gives
\* UnspecifiedError, whose byte value is 0xFF.
C21_ErrorCauseMapping ==
    Returned("cause")
        => /\ result[1].cause =
                 (IF arg > 7 THEN "UnspecifiedError"
                  ELSE <<"Success", "ChecksumError", "InvalidArgument",
                         "OperationFailed", "ConfigNotFound", "InternalError",
                         "StateMismatch", "NoValidData">>[arg + 1])
           /\ result[1].raw = (IF arg > 7 THEN 255 ELSE arg)

C21_Witness ==
    /\ Returned("cause")
    /\ arg = 8
    /\ result[1] = [cause |-> "UnspecifiedError", raw |-> 255]

----------------------------------------------------------------------------
(* Vocabulary of the run() properties *)

\* run() as written: nothing but run() itself holds the outbound sender
AsWritten == wiring = "run"

UiEnded == uiw \in {"done", "panicked"}

AllWorkersEnded == reader = "done" /\ writer = "done" /\ UiEnded

----------------------------------------------------------------------------
(* C22 *)

\* C22: once the transport read fails, the reader exits, the channels close,
\* the writer and the UI task exit, the join completes and run() returns.
C22_ShutdownCompletes ==
    (AsWritten /\ transport = "failed") ~> (runpc = "returned")

\* what does happen: the reader and the UI task end ...
C22_ReaderAndUiEnd ==
    (AsWritten /\ transport = "failed") ~> (reader = "done" /\ UiEnded)

\* ... and the writer task does not, so run() stays in the join
C22_RunStaysInJoin ==
    AsWritten => writer = "running" /\ runpc = "join" /\ surface = "acquired"

----------------------------------------------------------------------------
(* C23 *)

\* C23, as stated: the outbound sender is dropped at construction, so the
\* writer sees a closed channel and exits without any command having been
\* sent, whatever the reader does.
C23_WriterExitsAtStartup ==
    AsWritten ~> (writer = "done")

\* C23, amended: the outbound sender stays a local of run() until run()
\* returns and nothing uses it: no command is sent, the channel stays open and
\* the writer task waits in recv, never exiting, whatever the reader does.
C23_WriterWaitsForever ==
    AsWritten
        => /\ cmdSender = "held"
           /\ sent = <<>> /\ cmdq = <<>> /\ wlog = <<>> /\ written = <<>>
           /\ writer = "running"

C23_Witness ==
    /\ AsWritten
    /\ reader = "done" /\ uiw = "done"
    /\ cmdSender = "held"
    /\ writer = "running"

----------------------------------------------------------------------------
(* C24 *)

----------------------------------------------------------------------------
(* C25 *)

\* a step of the writer task that handled one command
WriterHandled == wlog' # wlog

\* C25: an encode failure or a write failure never ends the writer task: it
\* goes on to the next command; it leaves its loop only when the outbound
\* channel has no sender left and is drained, every command sent having been
\* handled by then.
C25_WriterSurvivesFailures ==
    /\ [][ /\ WriterHandled => writer' = "running"
           /\ (writer = "running" /\ writer' = "done")
                 => cmdq = <<>> /\ cmdSender = "dropped" ]_vars
    /\ [](writer = "done" => Len(wlog) = Len(sent))

C25_Witness ==
    /\ writer = "done"
    /\ wlog = <<"encode_err", "written", "write_err">>

----------------------------------------------------------------------------
(* C26 *)

\* a step of the reader task that forwarded (or dropped) one decoded event
ReaderForwarded == pending # <<>> /\ pending' = Tail(pending)

\* C26: the reader never blocks on the event channel: a forward step is
\* possible whenever an event is pending; with the channel at capacity the
\* new event is dropped, what is queued stays queued, and the reader runs on.
C26_ReaderNeverBlocks ==
    /\ []((reader = "running" /\ pending # <<>>) => ENABLED ReaderForward)
    /\ [][ ReaderForwarded
             => /\ reader' = "running"
                /\ Len(uiq) >= ChannelCapacity => uiq' = uiq
                /\ (Len(uiq) < ChannelCapacity /\ uiw = "running")
                      => uiq' = Append(uiq, Head(pending)) ]_vars

C26_Witness ==
    /\ reader = "running"
    /\ Len(produced) = MaxBurst
    /\ pending = <<>>
    /\ delivered = <<>>
    /\ uiq = SubSeq(produced, 1, ChannelCapacity)

----------------------------------------------------------------------------
(* C27 *)

\* C27: a read failure is terminal for the reader task: it ends on the read
\* error, and from then on nothing is read, decoded or sent, and no sender of
\* the event channel is left.
C27_ReadFailureTerminal ==
    /\ [][ /\ (reader = "running" /\ reader' = "done")
                 => transport = "failed" /\ uiSenders' = 0
           /\ reader = "done"
                 => /\ UNCHANGED <<reader, wire, buf, pre, commands, pending,
                                   produced, uiSenders>>
                    /\ \/ uiq' = uiq
                       \/ uiq # <<>> /\ uiq' = Tail(uiq)
                       \/ uiq' = <<>> ]_vars
    /\ [](reader = "done" => uiSenders = 0 /\ pending = <<>>)

C27_Witness ==
    /\ reader = "done"
    /\ transport = "failed"
    /\ wire # <<>>
    /\ produced # <<>>
    /\ uiSenders = 0

----------------------------------------------------------------------------
(* C28 *)

EventChannelClosed == uiSenders = 0 /\ uiq = <<>>

\* C28: the UI task leaves its loop only on a closed event channel or a
\* failed render, a failed render does end it, and so, eventually, does a
\* closed channel; a received event or a tick with a successful render
\* leaves it running.
C28_UiExit ==
    /\ [][ /\ (uiw = "running" /\ uiw' # "running")
                 => EventChannelClosed \/ lastDraw' \in {"err", "panic"}
           /\ (uiw = "running" /\ lastDraw' # lastDraw
                 /\ lastDraw' \in {"err", "panic"}) => uiw' # "running"
           /\ (uiw = "running" /\ delivered' # delivered) => uiw' = "running"
           /\ (uiw = "running" /\ lastDraw' # lastDraw /\ lastDraw' = "ok")
                 => uiw' = "running" ]_vars
    /\ (EventChannelClosed ~> (uiw # "running"))

C28_Witness ==
    /\ uiw = "done"
    /\ lastDraw = "ok"
    /\ delivered # <<>>
    /\ EventChannelClosed

----------------------------------------------------------------------------
(* C29 *)

\* p is the beginning of s
PrefixOf(p, s) == Len(p) <= Len(s) /\ SubSeq(s, 1, Len(p)) = p

\* the frames handed to write_frame without error for the first k commands
\* handled, the k-th command handled being the k-th command sent
RECURSIVE WrittenOf(_)
WrittenOf(k) ==
    IF k = 0 THEN <<>>
    ELSE IF wlog[k] = "written"
         THEN Append(WrittenOf(k - 1), <<k, CreateFrame(codec, sent[k]).val>>)
         ELSE WrittenOf(k - 1)

\* C29: the frames written to the transport are, in send order, the frames of
\* the commands sent (each from its first byte on); a command whose encoding
\* fails is skipped (as is one whose write fails), none is reordered.
C29_OutboundOrder ==
    /\ Len(wlog) + Len(cmdq) = Len(sent)
    /\ \A k \in 1..Len(wlog) :
           (wlog[k] = "encode_err") <=> ~CreateFrame(codec, sent[k]).ok
    /\ Len(written) = Len(WrittenOf(Len(wlog)))
    /\ \A i \in 1..Len(written) :
           /\ written[i][1] = WrittenOf(Len(wlog))[i][1]
           /\ written[i][2] # <<>>
           /\ PrefixOf(written[i][2], WrittenOf(Len(wlog))[i][2])
    /\ \A i \in 1..Len(cmdq) : cmdq[i] = [n |-> Len(wlog) + i,
                                          cmd |-> sent[Len(wlog) + i]]

C29_Witness ==
    /\ wlog = <<"written", "encode_err", "written">>
    /\ Len(written) = 2
    /\ written[1][1] = 1 /\ written[2][1] = 3
    /\ written[1][2] # written[2][2]

----------------------------------------------------------------------------
(* C30 *)

\* the number a frame of the run wires carries in its payload; the frames of
\* a wire are numbered upwards
FrameNo(cmd) == cmd.payload[1][1]

StrictlyUp(ns) == \A i, j \in 1..Len(ns) : i < j => ns[i] < ns[j]

\* C30: the Commands of one decode call are in the order of their frames in
\* the buffer, and the events received from the event channel, with those
\* still queued in it, are an order-preserving subsequence of the Commands
\* the decoder produced.
C30_InboundOrder ==
    /\ StrictlyUp([i \in 1..Len(commands) |-> FrameNo(commands[i])])
    /\ StrictlyUp([i \in 1..Len(produced) |-> FrameNo(produced[i].cmd)])
    /\ \A k \in 1..Len(produced) : produced[k].n = k
    /\ LET got == delivered \o uiq
       IN  /\ StrictlyUp([i \in 1..Len(got) |-> got[i].n])
           /\ \A i \in 1..Len(got) :
                  got[i].n \in 1..Len(produced) /\ got[i] = produced[got[i].n]

C30_Witness ==
    /\ Len(produced) = MaxBurst
    /\ Len(delivered) = ChannelCapacity + 1
    /\ delivered[ChannelCapacity + 1].n = MaxBurst

----------------------------------------------------------------------------
(* Vocabulary of the decode properties *)

\* a decode call has returned
DecodeReturned == dpc = "idle" /\ pre # <<>>

\* the first sync word of s is at offset i
FirstSyncAt(s, i) ==
    /\ i + 2 <= Len(s)
    /\ s[i + 1] = 85 /\ s[i + 2] = 170
    /\ ~HasSync(SubSeq(s, 1, i + 1))

\* the payload length the header at the start of b announces to codec c
Announced(c, b) == FieldOf(b, NativeOrder(c)) % (DATA_LENGTH_MASK + 1)

\* b begins with a sync word and the frame beginning there has not arrived
\* in full: fewer than 10 bytes, or fewer than 10 + the announced length
PartialFrame(c, b) ==
    /\ Len(b) >= 2 /\ SubSeq(b, 1, 2) = FRAME_HEAD
    /\ \/ Len(b) < FRAME_FIXED_LEN + FRAME_BCC_LEN
       \/ Len(b) < FRAME_FIXED_LEN + FRAME_BCC_LEN + Announced(c, b)

----------------------------------------------------------------------------
(* C31 *)

\* C31, as stated: after a decode call the buffer is empty or holds only a
\* partial next frame: it begins with 55 AA (or is the one byte 55) and is
\* shorter than the frame its header announces.
C31_BufferEmptyOrPartial ==
    DecodeReturned => buf = <<>> \/ buf = <<85>> \/ PartialFrame(codec, buf)

\* C31, amended: after a decode call the buffer is empty, or holds bytes with
\* no sync word among them (noise, kept as it is), or begins with 55 AA and
\* is shorter than ten bytes or than the frame its header announces.
C31_BufferEmptyNoiseOrPartial ==
    DecodeReturned => buf = <<>> \/ ~HasSync(buf) \/ PartialFrame(codec, buf)

C31_Witness ==
    /\ DecodeReturned
    /\ codec = "protocol"
    /\ commands # <<>>
    /\ Len(buf) = 10
    /\ PartialFrame(codec, buf)

----------------------------------------------------------------------------
(* C33 *)

\* C33: a decode call terminates: every turn of its loop ends the loop or
\* takes at least one byte off the buffer, a call on n bytes begins at most
\* n + 1 turns, and a call that has begun returns.
C33_DecodeTerminates ==
    /\ [](iters <= Len(pre) + 1)
    /\ [][(dpc = "loop" /\ dpc' = "loop") => Len(buf') < Len(buf)]_vars
    /\ ((dpc = "loop") ~> (dpc = "idle"))

C33_Witness ==
    /\ DecodeReturned
    /\ codec = "bln"
    /\ iters = 4
    /\ Len(pre) = 22
    /\ Len(commands) = 1
    /\ buf = <<>>

----------------------------------------------------------------------------
(* C34 *)

\* C34: a decode call on a buffer without a sync word returns no Command and
\* leaves the buffer as it was.
C34_NoSyncNothingDiscarded ==
    (DecodeReturned /\ ~HasSync(pre)) => commands = <<>> /\ buf = pre

C34_Witness ==
    /\ DecodeReturned
    /\ pre = <<170, 85, 85>>
    /\ buf = pre
    /\ wire # <<>>

----------------------------------------------------------------------------
(* C35 *)

\* C35: with the first sync word at offset i and the frame beginning there
\* incomplete, a decode call drops the i bytes ahead of the sync word, leaves
\* everything from the sync word on in the buffer and returns no Command.
C35_IncompleteFrameKept ==
    \A i \in 0..Len(pre) :
        (DecodeReturned /\ FirstSyncAt(pre, i)
           /\ PartialFrame(codec, Advance(pre, i)))
            => commands = <<>> /\ buf = Advance(pre, i)

C35_Witness ==
    /\ DecodeReturned
    /\ FirstSyncAt(pre, 2)
    /\ Len(pre) = 13
    /\ PartialFrame(codec, Advance(pre, 2))
    /\ HasSync(Advance(pre, 3))
    /\ buf = Advance(pre, 2)

----------------------------------------------------------------------------
(* C36 *)

\* the device sent a complete frame with payload p whose checksum byte is
\* wrong by the bits f, then a complete valid frame with payload q, and one
\* decode call got all of it
CorruptThenValid(p, f, q) ==
    /\ DecodeReturned
    /\ f # 0
    /\ whole = WireFrame(NativeOrder(codec), 145, 2, p, 0, f)
                   \o WireFrame(NativeOrder(codec), 147, 1, q, 0, 0)
    /\ pre = whole

\* what C36 asks of the call: the one Command of the valid frame, and an
\* empty buffer
ValidOneOnly(q) ==
    /\ commands = << [cmd_type |-> <<147>>,
                      response_status |-> Some(1),
                      payload |-> IF q = <<>> THEN None ELSE Some(q)] >>
    /\ buf = <<>>

\* C36: a complete frame with a wrong checksum byte followed by a complete
\* valid frame: one decode call returns the Command of the valid frame alone
\* and leaves the buffer empty.
C36_CorruptThenValid ==
    \A p \in {<<>>, <<85, 170>>, SyncPayload}, f \in {1, 128}, q \in {<<>>, <<2>>} :
        CorruptThenValid(p, f, q) => ValidOneOnly(q)

\* the same of BlnProtocol alone, which drops the whole corrupt frame
C36_CorruptThenValid_BlnProtocol ==
    \A p \in {<<>>, <<85, 170>>, SyncPayload}, f \in {1, 128}, q \in {<<>>, <<2>>} :
        (codec = "protocol" /\ CorruptThenValid(p, f, q)) => ValidOneOnly(q)

\* BlnCommandDecode does the same as long as the payload of the corrupt frame
\* holds no sync word
C36_CorruptThenValid_PlainPayload ==
    \A f \in {1, 128}, q \in {<<>>, <<2>>} :
        CorruptThenValid(<<>>, f, q) => ValidOneOnly(q)

C36_Witness ==
    /\ codec = "protocol"
    /\ CorruptThenValid(SyncPayload, 128, <<2>>)
    /\ ValidOneOnly(<<2>>)

----------------------------------------------------------------------------
(* C38 *)

\* the bytes read so far
Consumed == SubSeq(whole, 1, Len(whole) - Len(wire))

\* C38: however the stream is split into reads, with a decode call after
\* each, the Commands returned so far and the buffer left are those of one
\* decode call on all the bytes read so far.
C38_ChunkingIndependence ==
    (dpc = "idle" /\ command = None)
        => /\ acc = Parse(codec, Consumed).command_list
           /\ buf = Parse(codec, Consumed).buf

C38_Witness ==
    /\ DecodeReturned
    /\ wire = <<>>
    /\ Len(whole) = 21
    /\ Len(pre) = 11
    /\ Len(commands) = 1
    /\ Len(acc) = 2
    /\ buf = <<>>

----------------------------------------------------------------------------
(* C39 *)

\* the buffer of the decode call held exactly the frame the encoder made of
\* the Command built by hand
EncodedDecoded ==
    /\ DecodeReturned
    /\ command # None
    /\ frame[1].ok
    /\ pre = frame[1].val

\* C39: for a Command with a one-byte cmd_type and a payload of 0..8191
\* bytes, decoding exactly its encoded frame returns one Command with the
\* same cmd_type, response_status Some(0) and the same payload (absent when
\* it was empty or absent), and empties the buffer; a payload holding 55 AA
\* makes no difference.
C39_CommandRoundTrip ==
    (EncodedDecoded /\ Len(UnwrapOrDefault(command[1].val.payload)) <= DATA_LENGTH_MASK)
        => /\ Len(command[1].val.cmd_type) = 1
           /\ commands =
                 << [cmd_type |-> command[1].val.cmd_type,
                     response_status |-> Some(0),
                     payload |->
                         IF UnwrapOrDefault(command[1].val.payload) = <<>>
                         THEN None
                         ELSE Some(UnwrapOrDefault(command[1].val.payload))] >>
           /\ buf = <<>>

C39_Witness ==
    /\ EncodedDecoded
    /\ command[1].val.payload = Some(FullPayload)
    /\ command[1].val.response_status = Some(3)
    /\ Len(commands) = 1
    /\ commands[1].payload = Some(FullPayload)

----------------------------------------------------------------------------
(* C32 *)

\* the variants of ProtocolError
ProtocolErrors == {"CommandNotApplicable", "InvalidCommandType", "InvalidPayload"}

\* a Result that is a value or a ProtocolError
TypedResult(r) == r.ok \/ r.err \in ProtocolErrors

\* C32: no codec or mapper operation panics: the decoder's slices, indexes,
\* splits and advances are in bounds on every buffer, and the encoder and
\* to_event return a value or a ProtocolError for every Command.
C32_NoPanic ==
    /\ dpc # "panic"
    /\ op # "panic"
    /\ command # None
          => /\ ~CreateFramePanics(codec, command[1].val)
             /\ TypedResult(frame[1])
    /\ op = "to_event" => TypedResult(result[1])

C32_Witness ==
    /\ DecodeReturned
    /\ Len(pre) = 17
    /\ op = "to_event"
    /\ arg = [cmd_type |-> <<145>>, response_status |-> Some(2),
              payload |-> Some(<<1, 2, 3, 4, 5, 6, 7>>)]
    /\ result = Some(Err("InvalidPayload"))

----------------------------------------------------------------------------
(* C37 *)

\* C37: for each command the writer task encodes, every byte of the frame
\* reaches the transport before the next command is taken: what a write that
\* returned Ok put on the transport is the whole frame of its command.
C37_WholeFrameWritten ==
    \A i \in 1..Len(written) :
        written[i][2] = CreateFrame(codec, sent[written[i][1]]).val

\* what holds of a write that returned Ok: a beginning of the frame, of one
\* byte at least
C37_FrameBeginningWritten ==
    \A i \in 1..Len(written) :
        /\ written[i][2] # <<>>
        /\ PrefixOf(written[i][2], CreateFrame(codec, sent[written[i][1]]).val)

\* a frame cut short is followed on the transport by the next frame
C37_Witness ==
    /\ Len(written) = 2
    /\ Len(written[1][2]) = Len(CreateFrame(codec, sent[1]).val) - 1
    /\ written[2][2] = CreateFrame(codec, sent[written[2][1]]).val

----------------------------------------------------------------------------
(* C40 *)

\* C40: the reader task terminates when the peer closes the connection: once
\* the stream is at its end the reader leaves its loop (at once, or through a
\* later read that fails); it does not go on reading the closed stream.
C40_ReaderEndsAfterClose ==
    (transport = "closed" /\ reader = "running") ~> (reader = "done")

\* what the code does at the end of the stream: a read that returns Ok(0)
\* leaves the reader in its loop, its senders alive and the buffer as it was
C40_EofReadGoesOn ==
    [][ReaderReadEof => /\ reader' = "running"
                        /\ uiSenders' = uiSenders
                        /\ buf' = buf /\ commands' = <<>>]_vars

====
